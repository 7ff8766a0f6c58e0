------------------------- MODULE CancellationProofs -------------------------
(***************************************************************************)
(* What unassign and edits leave of the requests as long as calls do not  *)
(* overlap and none of them dies: no active request names a seat that its *)
(* owner has lost otherwise than by an approval, and an edit has          *)
(* cancelled every request about the shift by the time it returns.        *)
(***************************************************************************)
EXTENDS SeatProofs

-----------------------------------------------------------------------------
(* The inductive invariant *)

Cancelling == {"cancel_find", "cancel_all"}

\* h is about to cancel the requests about p's seat on s.
Cancels(h, s, p) == job[h].pc \in Cancelling /\ job[h].shift = s /\ p \in job[h].rows

\* p is on s, or was until an approval, or whoever took p off s is still at it.
Accounted(s, p) == Holds(p, s) \/ GivenAway(s, p) \/ \E h \in Procs : Cancels(h, s, p)

\* An active request names seats that are accounted for.
Names(r, s, p) == Active(r) /\ RefersTo(r, s, {p})

SidesAccounted ==
  \A r \in Requests, s \in Shifts, p \in Staff : Names(r, s, p) => Accounted(s, p)

\* The automatic cancellation has found all there is to cancel, and a new request is
\* about seats that are held.
CallOK(j) ==
  /\ j.pc = "cancel_all" => j.hits = PendingFor(j.shift, j.rows)
  /\ j.pc \in RowCreations => Holds(j.from, j.shift)
  /\ j.pc = "swap_create" /\ j.back # None => Holds(j.to, j.back)

CallsOK == \A h \in Procs : CallOK(job[h])

CInv == SidesAccounted /\ CallsOK

-----------------------------------------------------------------------------
(* What a step may do *)

Ending == Cancelling \cup {"edit_rows"}

\* What EditCancelsRequests says of a step.
EditDone ==
  \A h \in Procs :
     At(h, "edit_rows") \/ At(h, "cancel_find") \/ At(h, "cancel_all") =>
       (job'[h].pc = "idle" =>
          \A r \in Requests : \A p \in HoldersOf(job[h].shift) \cap
               (IF At(h, "edit_rows") THEN Staff ELSE job[h].rows) :
             RefersTo(r, job[h].shift, {p}) => request'[r].status \notin ActiveStatuses)

Clean == CInv' /\ EditDone

\* p's seat on s is still accounted for, as far as h is concerned.
SeatStays(h, s, p) == Holds(p, s) \/ Cancels(h, s, p) => Accounted(s, p)'

TransfersStay == \A r \in Requests : moved[r] \subseteq moved'[r]

LEMMA SidesKept ==
  ASSUME CInv, NEW h \in Procs, OthersStay(h), TransfersStay,
         \A r \in Requests, s \in Shifts, p \in Staff : Names(r, s, p)' =>
            Accounted(s, p)' \/ (Names(r, s, p) /\ SeatStays(h, s, p))
  PROVE  SidesAccounted'
<1> SUFFICES ASSUME NEW r \in Requests, NEW s \in Shifts, NEW p \in Staff,
                    Names(r, s, p), SeatStays(h, s, p)
             PROVE  Accounted(s, p)'
  BY DEF SidesAccounted
<1>1. Accounted(s, p)
  BY DEF CInv, SidesAccounted
<1>2. CASE Holds(p, s) \/ Cancels(h, s, p)
  BY <1>2 DEF SeatStays
<1>3. CASE GivenAway(s, p)
  BY <1>3 DEF GivenAway, Accounted, TransfersStay
<1>4. ASSUME NEW g \in Procs, g # h, Cancels(g, s, p) PROVE Accounted(s, p)'
  BY <1>4 DEF Cancels, OthersStay, Accounted
<1> QED
  BY <1>1, <1>2, <1>3, <1>4 DEF Accounted

\* The calls in flight, after h has read or written.
LEMMA CallsAfterRead ==
  ASSUME CInv, NEW h \in Procs, OthersStay(h), UNCHANGED <<request, assignment>>, CallOK(job[h])'
  PROVE  CallsOK'
<1> SUFFICES ASSUME NEW g \in Procs, g # h PROVE CallOK(job[g])'
  BY DEF CallsOK
<1>1. job'[g] = job[g] /\ CallOK(job[g])
  BY DEF CInv, CallsOK, OthersStay
<1> QED
  BY <1>1 DEF CallOK, PendingFor, RefersTo, Active, Holds

Settled(h) == job'[h].pc \notin RowCreations \cup {"cancel_all"}

LEMMA CallsAfterWrite ==
  ASSUME InTurn, NEW h \in Procs, ~Idle(h), OthersStay(h), Settled(h)
  PROVE  CallsOK'
<1> SUFFICES ASSUME NEW g \in Procs PROVE job'[g].pc \notin RowCreations \cup {"cancel_all"}
  BY DEF CallsOK, CallOK, RowCreations
<1>1. CASE g = h
  BY <1>1 DEF Settled
<1>2. CASE g # h
  BY <1>2 DEF InTurn, Idle, OthersStay, RowCreations
<1> QED
  BY <1>1, <1>2

\* Only the last steps of unassign and of an edit have to do with EditCancelsRequests.
LEMMA NothingEnds ==
  ASSUME NEW h \in Procs, OthersStay(h), job[h].pc \notin Ending
  PROVE  EditDone
<1> SUFFICES ASSUME NEW g \in Procs, job[g].pc \in Ending PROVE job'[g].pc # "idle"
  BY DEF EditDone, At, Ending, Cancelling
<1> QED
  BY DEF OthersStay, Ending, Cancelling

\* h leaves requests, seats and transfers alone.
LEMMA ReadKeepsSides ==
  ASSUME CInv, NEW h \in Procs, OthersStay(h), UNCHANGED <<request, assignment, moved>>,
         job[h].pc \notin Cancelling, CallOK(job[h])'
  PROVE  CInv'
<1>1. ASSUME NEW r \in Requests, NEW s \in Shifts, NEW p \in Staff, Names(r, s, p)'
      PROVE  Names(r, s, p) /\ SeatStays(h, s, p)
  BY <1>1 DEF Names, RefersTo, Active, SeatStays, Cancels, Accounted, Holds
<1>2. SidesAccounted'
  BY <1>1, SidesKept DEF TransfersStay
<1> QED
  BY <1>2, CallsAfterRead DEF CInv

LEMMA ReadIsClean ==
  ASSUME CInv, NEW h \in Procs, OthersStay(h), UNCHANGED <<request, assignment, moved>>,
         job[h].pc \notin Ending, CallOK(job[h])'
  PROVE  Clean
BY ReadKeepsSides, NothingEnds DEF Clean, Ending

LEMMA SettledIsClean ==
  ASSUME CInv, NEW h \in Procs, OthersStay(h), UNCHANGED <<request, assignment, moved>>,
         job[h].pc \notin Ending, Settled(h)
  PROVE  Clean
<1>1. CallOK(job[h])'
  BY DEF Settled, CallOK, RowCreations
<1> QED
  BY <1>1, ReadIsClean

\* h writes requests, and the seats they name stay.
LEMMA AnswerIsClean ==
  ASSUME CInv, InTurn, NEW h \in Procs, ~Idle(h), OthersStay(h), Settled(h),
         job[h].pc \notin Ending, UNCHANGED <<assignment, moved>>,
         \A r \in Requests, s \in Shifts, p \in Staff : Names(r, s, p)' =>
            Names(r, s, p) \/ Holds(p, s)
  PROVE  Clean
<1>1. ASSUME NEW s \in Shifts, NEW p \in Staff
      PROVE  SeatStays(h, s, p) /\ (Holds(p, s) => Accounted(s, p)')
  BY DEF SeatStays, Cancels, Ending, Accounted, Holds
<1>2. SidesAccounted'
  BY <1>1, SidesKept DEF TransfersStay
<1> QED
  BY <1>2, CallsAfterWrite, NothingEnds DEF Clean, CInv

\* h writes a seat.
LEMMA SeatWriteIsClean ==
  ASSUME CInv, InTurn, NEW h \in Procs, ~Idle(h), OthersStay(h), Settled(h),
         job[h].pc \notin Ending, TransfersStay,
         \A r \in Requests, s \in Shifts, p \in Staff : Names(r, s, p)' =>
            Names(r, s, p) /\ (Holds(p, s) => Accounted(s, p)')
  PROVE  Clean
<1>1. ASSUME NEW s \in Shifts, NEW p \in Staff, Holds(p, s) => Accounted(s, p)'
      PROVE  SeatStays(h, s, p)
  BY <1>1 DEF SeatStays, Cancels, Ending
<1>2. SidesAccounted'
  BY <1>1, SidesKept
<1> QED
  BY <1>2, CallsAfterWrite, NothingEnds DEF Clean, CInv
-----------------------------------------------------------------------------
(* Steps that write neither requests nor seats *)

\* What such a step leaves unchanged.
RowsAlone == UNCHANGED <<request, assignment, moved>>

LEMMA LocalLeavesRows ==
  ASSUME OnlyJob
  PROVE  RowsAlone
BY DEF OnlyJob, RowsAlone, swapVars, rosterVars

LEMMA FinishIsSettled ==
  ASSUME IInv, NEW h \in Procs, Finish(h)
  PROVE  OthersStay(h) /\ Settled(h) /\ job'[h].pc = "idle"
BY NoJobIsIdle DEF Finish, Continue, OthersStay, Settled, RowCreations, IInv, TypeOK

LEMMA FinishIsClean ==
  ASSUME IInv, CInv, NEW h \in Procs, Finish(h), RowsAlone, job[h].pc \notin Ending
  PROVE  Clean
BY FinishIsSettled, SettledIsClean DEF RowsAlone

LEMMA RefusalIsClean ==
  ASSUME IInv, CInv, NEW h \in Procs, Refuse(h), job[h].pc \notin Ending
  PROVE  Clean
BY FinishIsClean DEF Refuse, RowsAlone, swapVars, rosterVars

LEMMA AdvanceIsClean ==
  ASSUME IInv, CInv, NEW h \in Procs, NEW pc \in Steps \ (RowCreations \cup {"cancel_all"}),
         Advance(h, pc), RowsAlone, job[h].pc \notin Ending
  PROVE  Clean
<1>1. OthersStay(h) /\ job'[h].pc = pc
  BY AdvanceIsOneStep
<1> QED
  BY <1>1, SettledIsClean DEF Settled, RowsAlone

LEMMA ReadsAreClean ==
  ASSUME IInv, CInv, NEW h \in Procs,
         \/ AssignLock(h) \/ AssignCount(h) \/ AssignCheck(h) \/ RemoveCount(h)
         \/ TransferLock(h) \/ TransferCheck(h)
  PROVE  Clean
<1>1. job[h].pc \notin Ending
  BY DEF AssignLock, AssignCount, AssignCheck, RemoveCount, TransferLock, TransferCheck, At, Ending,
         Cancelling
<1>2. CASE Refuse(h)
  BY <1>1, <1>2, RefusalIsClean
<1>3. CASE ~Refuse(h)
  <2>1. RowsAlone
    BY <1>3, LocalLeavesRows
       DEF AssignLock, AssignCount, AssignCheck, RemoveCount, TransferLock, TransferCheck,
           TakeLockAndGoTo, RowsAlone, swapVars, rosterVars
  <2>2. PICK pc \in {"assign_count", "assign_check", "assign_write", "remove_delete",
                     "transfer_check", "transfer_write"} : Advance(h, pc)
    BY <1>3 DEF AssignLock, AssignCount, AssignCheck, RemoveCount, TransferLock, TransferCheck,
                TakeLockAndGoTo
  <2>3. pc \in Steps \ (RowCreations \cup {"cancel_all"})
    BY DEF Steps, LockedSteps, RowCreations
  <2> QED
    BY <1>1, <2>1, <2>2, <2>3, AdvanceIsClean
<1> QED
  BY <1>2, <1>3

LEMMA ShiftWritesAreClean ==
  ASSUME IInv, CInv, NEW h \in Procs,
         CreateWrite(h) \/ EditWrite(h) \/ PublishWrite(h) \/ UnpublishWrite(h)
  PROVE  Clean
<1>1. job[h].pc \notin Ending
  BY DEF CreateWrite, EditWrite, PublishWrite, UnpublishWrite, At, Ending, Cancelling
<1>2. CASE Refuse(h)
  BY <1>1, <1>2, RefusalIsClean
<1>3. CASE CreateWrite(h) \/ PublishWrite(h) \/ UnpublishWrite(h)
  BY <1>1, <1>3, FinishIsClean
     DEF CreateWrite, PublishWrite, UnpublishWrite, SetPublished, RowsAlone, swapVars, rosterVars
<1>4. CASE EditWrite(h) /\ ~Refuse(h)
  <2>1. /\ Continue(h, [NoJob EXCEPT !.pc = "edit_rows", !.shift = job[h].shift])
        /\ RowsAlone
    BY <1>4 DEF EditWrite, RowsAlone, swapVars
  <2>2. OthersStay(h) /\ Settled(h)
    BY <2>1 DEF Continue, NoJob, OthersStay, Settled, RowCreations, IInv, TypeOK
  <2> QED
    BY <1>1, <2>1, <2>2, SettledIsClean DEF RowsAlone
<1> QED
  BY <1>2, <1>3, <1>4

LEMMA QueueStepsAreClean ==
  ASSUME IInv, CInv, NEW h \in Procs, DropEnqueue(h) \/ CancelJob(h)
  PROVE  Clean
<1>1. job[h].pc \notin Ending
  BY DEF DropEnqueue, CancelJob, At, Ending, Cancelling
<1> QED
  BY <1>1, FinishIsClean DEF DropEnqueue, CancelJob, RowsAlone, swapVars, rosterVars

LEMMA ManagerCallIsClean ==
  ASSUME IInv, CInv, NEW h \in Procs, AssignmentCall(h)
  PROVE  Clean
<1>1. OthersStay(h) /\ Settled(h)
  BY AssignmentCallAside, AssignmentCallUnguarded DEF Aside, Unguarded, Guarded, Settled
<1>2. RowsAlone /\ Idle(h)
  BY LocalLeavesRows
     DEF AssignmentCall, AssignStart, UnassignStart, CreateStart, EditStart, BeginEdit, RemoveStart,
         PublishStart, UnpublishStart
<1> QED
  BY <1>1, <1>2, SettledIsClean DEF RowsAlone, Idle, Ending, Cancelling

\* Answers to a request and decisions about it begin with its status.
LEMMA AnswersAreSettled ==
  ASSUME IInv, NEW h \in Procs, NEW r \in Requests,
         \/ AcceptStart(h, r) \/ DeclineStart(h, r) \/ CancelStart(h, r)
         \/ ApproveStart(h, r) \/ RejectStart(h, r)
         \/ \E q \in Staff : ClaimStart(h, r, q)
  PROVE  Settled(h)
<1> USE DEF Continue, NoJob, Settled, RowCreations, IInv, TypeOK
<1>1. CASE AcceptStart(h, r) \/ DeclineStart(h, r) \/ CancelStart(h, r) \/ RejectStart(h, r)
  <2>1. PICK pc \in {"accept_write", "decline_write", "cancel_write", "reject_write"} :
           Begin(h, r, pc)
    BY <1>1 DEF AcceptStart, DeclineStart, CancelStart, RejectStart
  <2> QED
    BY <2>1 DEF Begin
<1>2. CASE ApproveStart(h, r)
  BY <1>2 DEF ApproveStart, BeginApproval, TransferJob
<1>3. ASSUME NEW q \in Staff, ClaimStart(h, r, q) PROVE Settled(h)
  BY <1>3 DEF ClaimStart
<1> QED
  BY <1>1, <1>2, <1>3

\* A new request is about seats that its parties hold.
LEMMA SwapCallIsClean ==
  ASSUME IInv, CInv, NEW h \in Procs, SwapCall(h)
  PROVE  Clean
<1>1. OthersStay(h) /\ RowsAlone /\ job[h].pc \notin Ending
  BY SwapCallBegins, LocalLeavesRows DEF Idle, Ending, Cancelling
<1>2. CASE Settled(h)
  BY <1>1, <1>2, SettledIsClean DEF RowsAlone
<1>3. ASSUME NEW r \in Requests, NEW p \in Staff, NEW q \in Staff, NEW s \in Shifts,
             NEW b \in Shifts \cup {None}, SwapStart(h, r, p, s, q, b)
      PROVE  Clean
  <2>1. /\ job'[h].pc = "swap_create" /\ job'[h].from = p /\ job'[h].to = q
        /\ job'[h].shift = s /\ job'[h].back = b
    BY <1>3 DEF SwapStart, Continue, NoJob, IInv, TypeOK
  <2>2. Holds(p, s) /\ (b # None => Holds(q, b))
    BY <1>3 DEF SwapStart, MayRequest
  <2>3. CallOK(job[h])'
    BY <1>1, <2>1, <2>2 DEF CallOK, RowsAlone, Holds
  <2> QED
    BY <1>1, <2>3, ReadIsClean DEF RowsAlone
<1>4. ASSUME NEW r \in Requests, NEW p \in Staff, NEW s \in Shifts, DropStart(h, r, p, s)
      PROVE  Clean
  <2>1. job'[h].pc = "drop_create" /\ job'[h].from = p /\ job'[h].shift = s
    BY <1>4 DEF DropStart, Continue, NoJob, IInv, TypeOK
  <2>2. Holds(p, s)
    BY <1>4 DEF DropStart, MayRequest
  <2>3. CallOK(job[h])'
    BY <1>1, <2>1, <2>2 DEF CallOK, RowsAlone, Holds
  <2> QED
    BY <1>1, <2>3, ReadIsClean DEF RowsAlone
<1>5. ASSUME NEW r \in Requests,
             \/ AcceptStart(h, r) \/ DeclineStart(h, r) \/ CancelStart(h, r)
             \/ ApproveStart(h, r) \/ RejectStart(h, r)
             \/ \E q \in Staff : ClaimStart(h, r, q)
      PROVE  Settled(h)
  BY <1>5, AnswersAreSettled
<1> QED
  BY <1>2, <1>3, <1>4, <1>5 DEF SwapCall

LEMMA ExpiryIsClean ==
  ASSUME IInv, CInv, NEW r \in Requests, ExpireStart(r)
  PROVE  Clean
<1>1. Worker \in Procs /\ RowsAlone
  BY DEF Procs, ExpireStart, RowsAlone, swapVars, rosterVars
<1>2. OthersStay(Worker) /\ Settled(Worker) /\ job[Worker].pc \notin Ending
  BY <1>1 DEF ExpireStart, Begin, Continue, NoJob, Idle, OthersStay, Settled, RowCreations, Ending,
              Cancelling, IInv, TypeOK
<1> QED
  BY <1>1, <1>2, SettledIsClean DEF RowsAlone
-----------------------------------------------------------------------------
(* Steps that write requests *)

\* The seats that a new request names are held.
LEMMA NewRequestIsClean ==
  ASSUME IInv, CInv, InTurn, NEW h \in Procs, job[h].pc \in RowCreations,
         NEW q \in SwapRequest, q.initiator = job[h].from, q.shift = job[h].shift,
         q.back # None => /\ job[h].pc = "swap_create"
                          /\ q.back = job[h].back /\ q.counterparty = job[h].to,
         request' = [request EXCEPT ![job[h].req] = q], UNCHANGED <<assignment, moved>>,
         OthersStay(h), Settled(h)
  PROVE  Clean
<1>1. /\ job[h].req \in Requests /\ ~Idle(h) /\ job[h].pc \notin Ending
  BY DEF IInv, JobsOK, JobOK, RowCreations, CreationSteps, Idle, Ending, Cancelling
<1>2. /\ Holds(job[h].from, job[h].shift)
      /\ job[h].pc = "swap_create" /\ job[h].back # None => Holds(job[h].to, job[h].back)
  BY DEF CInv, CallsOK, CallOK
<1>3. ASSUME NEW r \in Requests, NEW s \in Shifts, NEW p \in Staff, Names(r, s, p)'
      PROVE  Names(r, s, p) \/ Holds(p, s)
  <2>1. CASE r = job[h].req
    <3>1. request'[r] = q
      BY <1>1, <2>1 DEF IInv, TypeOK
    <3>2. \/ s = job[h].shift /\ p = job[h].from
          \/ s = q.back /\ p = q.counterparty
      BY <1>3, <3>1 DEF Names, RefersTo
    <3>3. s # None
      BY NoneAssumption
    <3> QED
      BY <1>2, <3>2, <3>3
  <2>2. CASE r # job[h].req
    <3>1. request'[r] = request[r]
      BY <1>1, <2>2 DEF IInv, TypeOK
    <3> QED
      BY <1>3, <3>1 DEF Names, RefersTo, Active
  <2> QED
    BY <2>1, <2>2
<1> QED
  BY <1>1, <1>3, AnswerIsClean

LEMMA SwapCreateIsClean ==
  ASSUME IInv, CInv, InTurn, NEW h \in Procs, SwapCreate(h)
  PROVE  Clean
<1> DEFINE q == [type |-> "SWAP", status |-> "PENDING_TARGET", initiator |-> job[h].from,
                 shift |-> job[h].shift, counterparty |-> job[h].to, back |-> job[h].back,
                 expiresAt |-> 0]
<1>1. job[h].pc = "swap_create" /\ job[h].pc \in RowCreations /\ job[h].pc \notin Ending
  BY DEF SwapCreate, At, RowCreations, Ending, Cancelling
<1>2. CASE Refuse(h)
  BY <1>1, <1>2, RefusalIsClean
<1>3. CASE ~Refuse(h)
  <2>1. /\ request' = [request EXCEPT ![job[h].req] = q] /\ Finish(h)
        /\ UNCHANGED <<assignment, moved>>
    BY <1>3 DEF SwapCreate, rosterVars
  <2>2. /\ job[h].from \in Staff /\ job[h].to \in Staff /\ job[h].shift \in Shifts
        /\ job[h].back \in Shifts \cup {None}
    BY <1>1 DEF IInv, TypeOK, JobsOK, JobOK, Job
  <2>3. /\ q \in SwapRequest /\ q.initiator = job[h].from /\ q.shift = job[h].shift
        /\ q.back = job[h].back /\ q.counterparty = job[h].to
    BY <2>2 DEF SwapRequest, ActiveStatuses
  <2>4. OthersStay(h) /\ Settled(h)
    BY <2>1, FinishIsSettled
  <2> HIDE DEF q
  <2> QED
    BY <1>1, <2>1, <2>3, <2>4, NewRequestIsClean
<1> QED
  BY <1>2, <1>3

LEMMA DropCreateIsClean ==
  ASSUME IInv, CInv, InTurn, NEW h \in Procs, DropCreate(h)
  PROVE  Clean
<1> DEFINE q == [type |-> "DROP", status |-> "PENDING", initiator |-> job[h].from,
                 shift |-> job[h].shift, counterparty |-> None, back |-> None,
                 expiresAt |-> job[h].expiresAt]
<1>1. job[h].pc = "drop_create" /\ job[h].pc \in RowCreations /\ job[h].pc \notin Ending
  BY DEF DropCreate, DropCreateThen, At, RowCreations, Ending, Cancelling
<1>2. CASE Refuse(h)
  BY <1>1, <1>2, RefusalIsClean
<1>3. CASE ~Refuse(h)
  <2>1. /\ request' = [request EXCEPT ![job[h].req] = q] /\ Advance(h, "drop_enqueue")
        /\ UNCHANGED <<assignment, moved>>
    BY <1>3 DEF DropCreate, DropCreateThen, rosterVars
  <2>2. job[h].from \in Staff /\ job[h].shift \in Shifts /\ job[h].expiresAt \in Int
    BY <1>1 DEF IInv, TypeOK, JobsOK, JobOK, Job
  <2>3. /\ q \in SwapRequest /\ q.initiator = job[h].from /\ q.shift = job[h].shift
        /\ q.back = None
    BY <2>2 DEF SwapRequest, ActiveStatuses
  <2>4. OthersStay(h) /\ Settled(h)
    BY <2>1, AdvanceIsOneStep DEF Steps, Settled, RowCreations
  <2> HIDE DEF q
  <2> QED
    BY <1>1, <2>1, <2>3, <2>4, NewRequestIsClean
<1> QED
  BY <1>2, <1>3

\* An answer changes the status of a request and not what the request is about, and a
\* request that was not active does not become so.
LEMMA StatusStepIsClean ==
  ASSUME IInv, TInv, CInv, InTurn, NEW h \in Procs, NEW at \in AnswerSteps,
         NEW status \in {"PENDING_MANAGER"} \cup ResolvedStatuses,
         status = "PENDING_MANAGER" => at = "accept_write",
         NEW then \in {"idle", "cancel_job"}, StatusStep(h, at, status, then)
  PROVE  Clean
<1> DEFINE x == job[h].req
<1>1. /\ x \in Requests /\ job[h].pc = at /\ ~Idle(h) /\ job[h].pc \notin Ending
  BY DEF StatusStep, At, IInv, JobsOK, JobOK, AnswerSteps, Idle, Ending, Cancelling
<1>2. /\ request'[x].status = status /\ request'[x].counterparty = request[x].counterparty
      /\ request'[x].initiator = request[x].initiator /\ request'[x].shift = request[x].shift
      /\ request'[x].back = request[x].back
      /\ \A r \in Requests \ {x} : request'[r] = request[r]
  BY <1>1 DEF StatusStep, SetStatus, IInv, TypeOK, SwapRequest
<1>3. status \in ActiveStatuses => Active(x)
  BY <1>1 DEF TInv, GuardsHold, GuardOK, Active, ActiveStatuses, ResolvedStatuses
<1>4. ASSUME NEW r \in Requests, NEW s \in Shifts, NEW p \in Staff, Names(r, s, p)'
      PROVE  Names(r, s, p)
  <2>1. CASE r = x
    BY <1>2, <1>3, <1>4, <2>1 DEF Names, RefersTo, Active
  <2>2. CASE r # x
    BY <1>2, <1>4, <2>2 DEF Names, RefersTo, Active
  <2> QED
    BY <2>1, <2>2
<1>5. OthersStay(h) /\ Settled(h)
  <2>1. CASE Finish(h)
    BY <2>1, FinishIsSettled
  <2>2. CASE Advance(h, "cancel_job")
    BY <2>2, AdvanceIsOneStep DEF Steps, Settled, RowCreations
  <2> QED
    BY <2>1, <2>2 DEF StatusStep
<1> QED
  BY <1>1, <1>4, <1>5, AnswerIsClean DEF StatusStep, rosterVars

LEMMA AnswersAreClean ==
  ASSUME IInv, TInv, CInv, InTurn, NEW h \in Procs,
         \/ AcceptWrite(h) \/ DeclineWrite(h) \/ CancelWrite(h)
         \/ RejectWrite(h) \/ ExpireWrite(h) \/ ApproveWrite(h)
  PROVE  Clean
BY StatusStepIsClean
   DEF AcceptWrite, DeclineWrite, CancelWrite, RejectWrite, ExpireWrite, ApproveWrite,
       AnswerSteps, ResolvedStatuses

\* A claim names a counterparty, of a drop that offers no seat in return.
LEMMA ClaimIsClean ==
  ASSUME IInv, RInv, TInv, CInv, InTurn, NEW h \in Procs, ClaimWrite(h)
  PROVE  Clean
<1> DEFINE x == job[h].req
<1>1. /\ x \in Requests /\ ~Idle(h) /\ job[h].pc \notin Ending
      /\ Active(x) /\ request[x].back = None
  BY DEF ClaimWrite, At, Idle, Ending, Cancelling, IInv, JobsOK, JobOK, AnswerSteps, TInv,
         GuardsHold, GuardOK, Active, ActiveStatuses, RInv, ClaimsAreOfDrops, DropsAreGifts
<1>2. /\ request'[x].initiator = request[x].initiator /\ request'[x].shift = request[x].shift
      /\ request'[x].back = request[x].back
      /\ \A r \in Requests \ {x} : request'[r] = request[r]
  BY <1>1 DEF ClaimWrite, IInv, TypeOK, SwapRequest
<1>3. ASSUME NEW r \in Requests, NEW s \in Shifts, NEW p \in Staff, Names(r, s, p)'
      PROVE  Names(r, s, p)
  <2>1. s # None
    BY NoneAssumption
  <2>2. CASE r = x
    BY <1>1, <1>2, <1>3, <2>1, <2>2 DEF Names, RefersTo
  <2>3. CASE r # x
    BY <1>2, <1>3, <2>3 DEF Names, RefersTo, Active
  <2> QED
    BY <2>2, <2>3
<1>4. OthersStay(h) /\ Settled(h)
  BY FinishIsSettled DEF ClaimWrite
<1> QED
  BY <1>1, <1>3, <1>4, AnswerIsClean DEF ClaimWrite, rosterVars

-----------------------------------------------------------------------------
(* Steps that write seats *)

LEMMA AssignWriteIsClean ==
  ASSUME IInv, CInv, InTurn, NEW h \in Procs, AssignWrite(h)
  PROVE  Clean
<1>1. job[h].pc \notin Ending /\ ~Idle(h)
  BY DEF AssignWrite, At, Ending, Cancelling, Idle
<1>2. CASE Refuse(h)
  BY <1>1, <1>2, RefusalIsClean
<1>3. CASE ~Refuse(h)
  <2>1. /\ Seat(job[h].shift, job[h].to, job[h].win) /\ Finish(h)
        /\ UNCHANGED <<request, moved>>
    BY <1>3 DEF AssignWrite, swapVars
  <2>2. \A s \in Shifts, p \in Staff : Holds(p, s) => Holds(p, s)'
    BY <2>1 DEF Seat, Holds, IInv, TypeOK
  <2>3. ASSUME NEW r \in Requests, NEW s \in Shifts, NEW p \in Staff, Names(r, s, p)'
        PROVE  Names(r, s, p) /\ (Holds(p, s) => Accounted(s, p)')
    BY <2>1, <2>2, <2>3 DEF Names, RefersTo, Active, Accounted
  <2>4. OthersStay(h) /\ Settled(h)
    BY <2>1, FinishIsSettled
  <2> QED
    BY <1>1, <2>1, <2>3, <2>4, SeatWriteIsClean DEF TransfersStay
<1> QED
  BY <1>2, <1>3

\* unassign takes a seat away and goes on to cancel what is about it.
LEMMA UnassignWriteIsClean ==
  ASSUME IInv, CInv, InTurn, NEW h \in Procs, UnassignWrite(h)
  PROVE  Clean
<1>1. /\ job[h].pc \notin Ending /\ ~Idle(h)
      /\ job[h].shift \in Shifts /\ job[h].to \in Staff
  BY DEF UnassignWrite, At, Ending, Cancelling, Idle, IInv, JobsOK, JobOK, CancelSteps
<1>2. CASE Refuse(h)
  BY <1>1, <1>2, RefusalIsClean
<1>3. CASE ~Refuse(h)
  <2>1. /\ assignment' = [assignment EXCEPT ![job[h].shift][job[h].to] = "CANCELLED"]
        /\ Continue(h, [NoJob EXCEPT !.pc = "cancel_find", !.shift = job[h].shift,
                                     !.rows = {job[h].to}])
        /\ UNCHANGED <<request, moved>>
    BY <1>3 DEF UnassignWrite, Unseat, swapVars
  <2>2. /\ OthersStay(h) /\ job'[h].pc = "cancel_find" /\ job'[h].shift = job[h].shift
        /\ job'[h].rows = {job[h].to}
    BY <2>1 DEF Continue, NoJob, OthersStay, IInv, TypeOK
  <2>3. \A s \in Shifts, p \in Staff :
           Holds(p, s) => Holds(p, s)' \/ (s = job[h].shift /\ p = job[h].to)
    BY <1>1, <2>1 DEF Holds, IInv, TypeOK
  <2>4. ASSUME NEW s \in Shifts, NEW p \in Staff, Holds(p, s) PROVE Accounted(s, p)'
    BY <2>2, <2>3, <2>4 DEF Accounted, Cancels, Cancelling
  <2>5. ASSUME NEW r \in Requests, NEW s \in Shifts, NEW p \in Staff, Names(r, s, p)'
        PROVE  Names(r, s, p) /\ (Holds(p, s) => Accounted(s, p)')
    BY <2>1, <2>4, <2>5 DEF Names, RefersTo, Active
  <2>6. Settled(h)
    BY <2>2 DEF Settled, RowCreations
  <2> QED
    BY <1>1, <2>1, <2>2, <2>5, <2>6, SeatWriteIsClean DEF TransfersStay
<1> QED
  BY <1>2, <1>3

\* A transfer takes a seat away and is remembered.
LEMMA TransferWriteIsClean ==
  ASSUME IInv, CInv, InTurn, NEW h \in Procs, TransferWrite(h)
  PROVE  Clean
<1> DEFINE t == job[h].shift
           o == job[h].from
           q == job[h].to
<1>1. /\ job[h].pc \notin Ending /\ ~Idle(h) /\ job[h].req \in Requests
      /\ t \in Shifts /\ o \in Staff /\ q \in Staff
  BY DEF TransferWrite, At, Ending, Cancelling, Idle, IInv, JobsOK, JobOK, TransferSteps
<1>2. CASE Refuse(h)
  BY <1>1, <1>2, RefusalIsClean
<1>3. CASE ~Refuse(h)
  <2>1. /\ assignment' = [assignment EXCEPT ![t][o] = "CANCELLED", ![t][q] = "ASSIGNED"]
        /\ moved' = [moved EXCEPT ![job[h].req] = @ \cup {<<t, o, q>>}]
        /\ Continue(h, AfterTransfer(h)) /\ UNCHANGED request
    BY <1>3 DEF TransferWrite, Transfer
  <2>2. TransfersStay /\ <<t, o, q>> \in moved'[job[h].req]
    BY <1>1, <2>1 DEF TransfersStay, IInv, TypeOK
  <2>3. \A s \in Shifts, p \in Staff : Holds(p, s) => Holds(p, s)' \/ (s = t /\ p = o)
    BY <1>1, <2>1 DEF Holds, IInv, TypeOK
  <2>4. ASSUME NEW s \in Shifts, NEW p \in Staff, Holds(p, s) PROVE Accounted(s, p)'
    BY <1>1, <2>2, <2>3, <2>4 DEF Accounted, GivenAway
  <2>5. ASSUME NEW r \in Requests, NEW s \in Shifts, NEW p \in Staff, Names(r, s, p)'
        PROVE  Names(r, s, p) /\ (Holds(p, s) => Accounted(s, p)')
    BY <2>1, <2>4, <2>5 DEF Names, RefersTo, Active
  <2>6. OthersStay(h) /\ job'[h] = AfterTransfer(h)
    BY <2>1 DEF Continue, OthersStay, IInv, TypeOK
  <2>7. Settled(h)
    BY <2>6, TransferJobFields DEF AfterTransfer, NoJob, Settled, RowCreations
  <2> QED
    BY <1>1, <2>2, <2>5, <2>6, <2>7, SeatWriteIsClean
<1> QED
  BY <1>2, <1>3

\* The seats of a deleted shift are named by no request any more.
LEMMA RemoveDeleteIsClean ==
  ASSUME IInv, CInv, InTurn, NEW h \in Procs, RemoveDelete(h)
  PROVE  Clean
<1> DEFINE t == job[h].shift
<1>1. job[h].pc \notin Ending /\ ~Idle(h) /\ t \in Shifts
  BY DEF RemoveDelete, At, Ending, Cancelling, Idle, IInv, JobsOK, JobOK, ShiftSteps
<1>2. CASE Refuse(h)
  BY <1>1, <1>2, RefusalIsClean
<1>3. CASE ~Refuse(h)
  <2>1. /\ assignment' = [assignment EXCEPT ![t] = [p \in Staff |-> "NONE"]]
        /\ request' = [r \in Requests |-> IF request[r].back = t
                                           THEN [request[r] EXCEPT !.back = None]
                                           ELSE request[r]]
        /\ \A r \in Requests : request[r].shift # t
        /\ Finish(h) /\ UNCHANGED moved
    BY <1>3 DEF RemoveDelete, Restricted
  <2>2. \A r \in Requests :
          /\ request'[r].status = request[r].status
          /\ request'[r].initiator = request[r].initiator /\ request'[r].shift = request[r].shift
          /\ request'[r].counterparty = request[r].counterparty
          /\ request'[r].back = IF request[r].back = t THEN None ELSE request[r].back
    BY <2>1 DEF IInv, TypeOK, SwapRequest
  <2>3. \A s \in Shifts \ {t}, p \in Staff : Holds(p, s) => Holds(p, s)'
    BY <2>1 DEF Holds, IInv, TypeOK
  <2>4. ASSUME NEW r \in Requests, NEW s \in Shifts, NEW p \in Staff, Names(r, s, p)'
        PROVE  Names(r, s, p) /\ (Holds(p, s) => Accounted(s, p)')
    <3>1. s # None
      BY NoneAssumption
    <3>2. Names(r, s, p) /\ s # t
      BY <2>1, <2>2, <2>4, <3>1 DEF Names, RefersTo, Active
    <3> QED
      BY <2>3, <3>2 DEF Accounted
  <2>5. OthersStay(h) /\ Settled(h)
    BY <2>1, FinishIsSettled
  <2> QED
    BY <1>1, <2>1, <2>4, <2>5, SeatWriteIsClean DEF TransfersStay
<1> QED
  BY <1>2, <1>3
-----------------------------------------------------------------------------
(* The end of unassign and of an edit *)

\* If h returns from an edit, what is about the seats it had found is active no more.
EndsWell(h) ==
  job'[h].pc = "idle" =>
    \A r \in Requests : \A p \in HoldersOf(job[h].shift) \cap
         (IF At(h, "edit_rows") THEN Staff ELSE job[h].rows) :
       RefersTo(r, job[h].shift, {p}) => request'[r].status \notin ActiveStatuses

LEMMA OneEnds ==
  ASSUME NEW h \in Procs, OthersStay(h), EndsWell(h)
  PROVE  EditDone
<1> SUFFICES ASSUME NEW g \in Procs, g # h, job[g].pc \in Ending PROVE job'[g].pc # "idle"
  BY DEF EditDone, EndsWell, At, Ending, Cancelling
<1> QED
  BY DEF OthersStay, Ending, Cancelling

\* Nobody is on the shift, or their requests are looked for.
LEMMA EditRowsIsClean ==
  ASSUME IInv, CInv, NEW h \in Procs, EditRows(h)
  PROVE  Clean
<1>1. job[h].pc = "edit_rows" /\ RowsAlone
  BY LocalLeavesRows DEF EditRows, At
<1>2. CASE HoldersOf(job[h].shift) = {}
  <2>1. OthersStay(h) /\ Settled(h)
    BY <1>2, FinishIsSettled DEF EditRows, Finish
  <2>2. EndsWell(h)
    BY <1>2 DEF EndsWell
  <2>3. CallOK(job[h])'
    BY <2>1 DEF Settled, CallOK, RowCreations
  <2> QED
    BY <1>1, <2>1, <2>2, <2>3, OneEnds, ReadKeepsSides DEF Clean, RowsAlone, Cancelling
<1>3. CASE HoldersOf(job[h].shift) # {}
  <2>1. PICK rows : Continue(h, [job[h] EXCEPT !.pc = "cancel_find", !.rows = rows])
    BY <1>3 DEF EditRows
  <2>2. OthersStay(h) /\ job'[h].pc = "cancel_find"
    BY <2>1 DEF Continue, OthersStay, IInv, TypeOK, Job
  <2>3. EndsWell(h) /\ CallOK(job[h])'
    BY <2>2 DEF EndsWell, CallOK, RowCreations
  <2> QED
    BY <1>1, <2>2, <2>3, OneEnds, ReadKeepsSides DEF Clean, RowsAlone, Cancelling
<1> QED
  BY <1>2, <1>3

\* What is active and names a seat whose requests h cancels is found by h.
LEMMA FoundIfNamed ==
  ASSUME NEW h \in Procs, NEW r \in Requests, NEW s \in Shifts, NEW p \in Staff,
         Names(r, s, p), Cancels(h, s, p)
  PROVE  r \in PendingFor(job[h].shift, job[h].rows)
BY DEF Names, Cancels, PendingFor, RefersTo

LEMMA CancelFindIsClean ==
  ASSUME IInv, CInv, NEW h \in Procs, CancelFind(h)
  PROVE  Clean
<1>1. job[h].pc = "cancel_find" /\ RowsAlone
  BY LocalLeavesRows DEF CancelFind, At
<1>2. PICK hits : hits = PendingFor(job[h].shift, job[h].rows)
  OBVIOUS
<1>3. ASSUME NEW r \in Requests, NEW s \in Shifts, NEW p \in Staff
      PROVE  Names(r, s, p)' <=> Names(r, s, p)
  BY <1>1 DEF RowsAlone, Names, RefersTo, Active
<1>4. ASSUME NEW s \in Shifts, NEW p \in Staff, Holds(p, s) PROVE Accounted(s, p)'
  BY <1>1, <1>4 DEF RowsAlone, Accounted, Holds
<1>5. CASE hits = {}
  <2>1. OthersStay(h) /\ Settled(h)
    BY <1>2, <1>5, FinishIsSettled DEF CancelFind, Finish
  <2>2. ASSUME NEW r \in Requests, NEW s \in Shifts, NEW p \in Staff, Names(r, s, p)
        PROVE  SeatStays(h, s, p)
    BY <1>2, <1>4, <1>5, <2>2, FoundIfNamed DEF SeatStays
  <2>3. SidesAccounted'
    BY <1>1, <1>3, <2>1, <2>2, SidesKept DEF TransfersStay, RowsAlone
  <2>4. CallsOK'
    <3>1. CallOK(job[h])'
      BY <2>1 DEF Settled, CallOK, RowCreations
    <3> QED
      BY <1>1, <2>1, <3>1, CallsAfterRead DEF RowsAlone
  <2>5. EndsWell(h)
    <3> SUFFICES ASSUME NEW r \in Requests, NEW p \in job[h].rows,
                        RefersTo(r, job[h].shift, {p})
                 PROVE  ~Active(r)
      BY <1>1 DEF EndsWell, At, RowsAlone, Active
    <3> QED
      BY <1>2, <1>5 DEF PendingFor, RefersTo
  <2> QED
    BY <2>1, <2>3, <2>4, <2>5, OneEnds DEF Clean, CInv
<1>6. CASE hits # {}
  <2>1. Continue(h, [job[h] EXCEPT !.pc = "cancel_all", !.hits = hits])
    BY <1>2, <1>6 DEF CancelFind
  <2>2. /\ OthersStay(h) /\ job'[h].pc = "cancel_all" /\ job'[h].hits = hits
        /\ job'[h].shift = job[h].shift /\ job'[h].rows = job[h].rows
    BY <2>1 DEF Continue, OthersStay, IInv, TypeOK, Job
  <2>3. ASSUME NEW s \in Shifts, NEW p \in Staff PROVE SeatStays(h, s, p)
    BY <1>1, <1>4, <2>2 DEF SeatStays, Accounted, Cancels, Cancelling
  <2>4. SidesAccounted'
    BY <1>1, <1>3, <2>2, <2>3, SidesKept DEF TransfersStay, RowsAlone
  <2>5. CallsOK'
    <3>1. CallOK(job[h])'
      BY <1>1, <1>2, <2>2 DEF CallOK, RowCreations, PendingFor, RefersTo, Active, RowsAlone
    <3> QED
      BY <1>1, <2>2, <3>1, CallsAfterRead DEF RowsAlone
  <2>6. EndsWell(h)
    BY <2>2 DEF EndsWell
  <2> QED
    BY <2>2, <2>4, <2>5, <2>6, OneEnds DEF Clean, CInv
<1> QED
  BY <1>5, <1>6

\* What was found is cancelled, and nothing else was to be found.
LEMMA CancelAllIsClean ==
  ASSUME IInv, CInv, InTurn, NEW h \in Procs, CancelAll(h)
  PROVE  Clean
<1>1. /\ job[h].pc = "cancel_all" /\ ~Idle(h) /\ UNCHANGED <<assignment, moved>>
      /\ job[h].hits = PendingFor(job[h].shift, job[h].rows)
  BY DEF CancelAll, At, Idle, rosterVars, CInv, CallsOK, CallOK
<1>2. \A r \in Requests :
        /\ r \in job[h].hits => request'[r].status = "CANCELLED"
        /\ r \notin job[h].hits => request'[r] = request[r]
  BY DEF CancelAll, IInv, TypeOK, SwapRequest
<1>3. OthersStay(h) /\ Settled(h)
  BY FinishIsSettled DEF CancelAll
<1>4. ASSUME NEW r \in Requests, NEW s \in Shifts, NEW p \in Staff, Names(r, s, p)'
      PROVE  Names(r, s, p) /\ SeatStays(h, s, p)
  <2>1. r \notin job[h].hits
    BY <1>2, <1>4 DEF Names, Active, ActiveStatuses
  <2>2. Names(r, s, p)
    BY <1>2, <1>4, <2>1 DEF Names, RefersTo, Active
  <2>3. ~Cancels(h, s, p)
    BY <1>1, <2>1, <2>2, FoundIfNamed
  <2> QED
    BY <1>1, <2>2, <2>3 DEF SeatStays, Accounted, Holds
<1>5. SidesAccounted'
  BY <1>1, <1>3, <1>4, SidesKept DEF TransfersStay
<1>6. EndsWell(h)
  <2> SUFFICES ASSUME NEW r \in Requests, NEW p \in job[h].rows, RefersTo(r, job[h].shift, {p})
               PROVE  request'[r].status \notin ActiveStatuses
    BY <1>1 DEF EndsWell, At
  <2>1. r \in job[h].hits <=> Active(r)
    BY <1>1 DEF PendingFor, RefersTo
  <2> QED
    BY <1>2, <2>1 DEF Active, ActiveStatuses
<1> QED
  BY <1>1, <1>3, <1>5, <1>6, CallsAfterWrite, OneEnds DEF Clean, CInv

-----------------------------------------------------------------------------
(* The whole system *)

LEMMA NextIsClean ==
  ASSUME ~Faults, IInv, RInv, TInv, CInv, InTurn, [Next]_vars
  PROVE  Clean
<1>1. ASSUME NEW h \in Procs, AssignmentStep(h) PROVE Clean
  BY <1>1, ReadsAreClean, AssignWriteIsClean, UnassignWriteIsClean, CancelFindIsClean,
     CancelAllIsClean, ShiftWritesAreClean, EditRowsIsClean, RemoveDeleteIsClean
     DEF AssignmentStep
<1>2. ASSUME NEW h \in Procs, SwapStep(h) PROVE Clean
  BY <1>2, SwapCreateIsClean, DropCreateIsClean, QueueStepsAreClean, AnswersAreClean,
     ClaimIsClean, ReadsAreClean, TransferWriteIsClean
     DEF SwapStep
<1>3. ASSUME NEW h \in Procs PROVE ~Fault(h) /\ ~StalledJob(h)
  BY DEF Fault, StalledJob
<1>4. ASSUME NEW h \in Handlers, AssignmentCall(h) \/ SwapCall(h) PROVE Clean
  BY <1>4, ManagerCallIsClean, SwapCallIsClean DEF Procs
<1>5. ASSUME NEW r \in Requests, ExpireStart(r) PROVE Clean
  BY <1>5, ExpiryIsClean
<1>6. CASE Tick \/ (\E p \in Staff : Requalify(p)) \/ UNCHANGED vars
  <2>1. RowsAlone /\ UNCHANGED job
    BY <1>6 DEF Tick, Requalify, vars, RowsAlone, swapVars, rosterVars
  <2>2. CInv'
    BY <2>1 DEF CInv, SidesAccounted, CallsOK, CallOK, Names, RefersTo, Active, Accounted, Holds,
                GivenAway, Cancels, PendingFor, RowsAlone
  <2>3. EditDone
    BY <2>1 DEF EditDone, At
  <2> QED
    BY <2>2, <2>3 DEF Clean
<1> QED
  BY <1>1, <1>2, <1>3, <1>4, <1>5, <1>6 DEF Next, HandlerStep

LEMMA InitCInv == Init => CInv
<1> SUFFICES ASSUME Init PROVE CInv
  OBVIOUS
<1>1. /\ \A r \in Requests : ~Active(r)
      /\ \A h \in Procs : job[h].pc = "idle"
  BY NoJobIsIdle DEF Init, NoRequest, Active, ActiveStatuses
<1> QED
  BY <1>1 DEF CInv, SidesAccounted, Names, CallsOK, CallOK, RowCreations

LEMMA CancellationInvariant ==
  ASSUME ~Faults
  PROVE  Spec /\ []InTurn => []CInv
<1>1. Init => CInv
  BY InitCInv
<1>2. IInv /\ RInv /\ TInv /\ CInv /\ InTurn /\ [Next]_vars => CInv'
  BY NextIsClean DEF Clean
<1> QED
  BY <1>1, <1>2, InvariantHolds, RequestInvariant, TurnInvariant, PTL DEF Spec

\* As long as calls do not overlap and none dies, both sides of an active request still
\* have the seats it is about whenever no call is in flight, or gave them away in an
\* approval: unassign cancels what names the seat it takes away, and a shift with
\* requests is not deleted.
THEOREM CurrentInTurn == ~Faults => (Spec /\ []InTurn => []LiveRequestIsCurrent)
<1> SUFFICES ASSUME ~Faults PROVE Spec /\ []InTurn => []LiveRequestIsCurrent
  OBVIOUS
<1>1. IInv /\ RInv /\ CInv => LiveRequestIsCurrent
  <2> SUFFICES ASSUME IInv, RInv, CInv, \A h \in Procs : Idle(h), NEW r \in Requests, Active(r)
               PROVE  /\ Holds(request[r].initiator, request[r].shift)
                            \/ GivenAway(request[r].shift, request[r].initiator)
                      /\ request[r].back # None =>
                           Holds(request[r].counterparty, request[r].back)
                             \/ GivenAway(request[r].back, request[r].counterparty)
    BY DEF LiveRequestIsCurrent
  <2>1. /\ request[r].shift \in Shifts /\ request[r].initiator \in Staff
        /\ request[r].back # None =>
             request[r].back \in Shifts /\ request[r].counterparty \in Staff
    BY DEF Active, ActiveStatuses, IInv, TypeOK, SwapRequest, RequestsOK, RequestOK, RInv,
           ReturnsAreOwned
  <2>2. \A s \in Shifts, p \in Staff : Names(r, s, p) => Holds(p, s) \/ GivenAway(s, p)
    BY DEF CInv, SidesAccounted, Accounted, Cancels, Cancelling, Idle
  <2> QED
    BY <2>1, <2>2 DEF Names, RefersTo
<1> QED
  BY <1>1, InvariantHolds, RequestInvariant, CancellationInvariant, PTL

\* As long as calls do not overlap and none dies, an edit returns only when no request
\* about a seat of the shift is active: its two statements find and cancel them all.
THEOREM EditsCancelInTurn == ~Faults => (Spec /\ []InTurn => EditCancelsRequests)
<1> SUFFICES ASSUME ~Faults PROVE Spec /\ []InTurn => EditCancelsRequests
  OBVIOUS
<1>1. IInv /\ RInv /\ TInv /\ CInv /\ InTurn /\ [Next]_vars =>
        [\A h \in Procs :
           At(h, "edit_rows") \/ At(h, "cancel_find") \/ At(h, "cancel_all") =>
             (job'[h].pc = "idle" =>
                \A r \in Requests : \A p \in HoldersOf(job[h].shift) \cap
                     (IF At(h, "edit_rows") THEN Staff ELSE job[h].rows) :
                   RefersTo(r, job[h].shift, {p}) => request'[r].status \notin ActiveStatuses)]_vars
  BY NextIsClean DEF Clean, EditDone
<1> QED
  BY <1>1, InvariantHolds, RequestInvariant, TurnInvariant, CancellationInvariant, PTL
     DEF Spec, EditCancelsRequests
=============================================================================
