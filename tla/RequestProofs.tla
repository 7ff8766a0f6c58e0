--------------------------- MODULE RequestProofs ---------------------------
(***************************************************************************)
(* What becomes of swap requests, for any number of calls in flight and   *)
(* with handlers dying at any await: no request loses the rows it names,   *)
(* and an approval is true.                                               *)
(***************************************************************************)
EXTENDS SchedulingProofs

-----------------------------------------------------------------------------
(* The inductive invariant *)

\* Nothing is offered in return for a drop, and only drops are claimed: a claim
\* therefore never changes the other side of an exchange.
DropsAreGifts == \A r \in Requests : request[r].type = "DROP" => request[r].back = None

\* A shift asked in return has an owner.
ReturnsAreOwned ==
  \A r \in Requests : request[r].back # None => request[r].counterparty \in Staff

ClaimsAreOfDrops ==
  \A h \in Procs : At(h, "claim_write") => request[job[h].req].type = "DROP"

HandedOver(r) ==
  \E q \in Staff : <<request[r].shift, request[r].initiator, q>> \in moved[r]

HandedBack(r) ==
  request[r].back # None =>
    <<request[r].back, request[r].counterparty, request[r].initiator>> \in moved[r]

\* Which of the two transfers of an approval a handler is in.  What it has read of the
\* request is still true, except that the return shift may have been deleted.
FirstLeg(j) ==
  /\ j.shift = request[j.req].shift /\ j.from = request[j.req].initiator
  /\ request[j.req].back # None =>
       j.back = request[j.req].back /\ j.to = request[j.req].counterparty

ReturnLeg(j) ==
  /\ j.back = None /\ HandedOver(j.req)
  /\ request[j.req].back # None =>
       /\ j.shift = request[j.req].back
       /\ j.from = request[j.req].counterparty /\ j.to = request[j.req].initiator

ApprovalOK(j) ==
  /\ j.pc \in TransferSteps => FirstLeg(j) \/ ReturnLeg(j)
  /\ j.pc = "approve_write" => HandedOver(j.req) /\ HandedBack(j.req)

ApprovalsOK == \A h \in Procs : ApprovalOK(job[h])

RInv ==
  /\ DropsAreGifts /\ ReturnsAreOwned /\ ClaimsAreOfDrops
  /\ NoDanglingRequest
  /\ ApprovalsOK /\ ApprovedMeansMoved

-----------------------------------------------------------------------------
(* What every step leaves of the requests, of the transfers and of the rows *)

\* An offer stands: the shift offered and its owner never change, what is asked in
\* return only becomes nothing, and transfers are not forgotten.
OffersStand ==
  \A r \in Requests :
     /\ moved[r] \subseteq moved'[r]
     /\ request[r].status # "NONE" =>
          /\ request'[r].status # "NONE" /\ request'[r].type = request[r].type
          /\ request'[r].shift = request[r].shift
          /\ request'[r].initiator = request[r].initiator
          /\ request'[r].back # None =>
               /\ request'[r].back = request[r].back
               /\ request'[r].counterparty = request[r].counterparty

\* The assignment rows that a request names after the step are still there.
NamedRowsStay ==
  \A s \in Shifts, p \in Staff : assignment[s][p] # "NONE" /\ assignment'[s][p] = "NONE" =>
     \A r \in Requests : request'[r].shift # s /\ request'[r].back # s

OthersStay(h) == \A g \in Procs \ {h} : job'[g] = job[g]

Stays(h) == OffersStand /\ NamedRowsStay /\ OthersStay(h)

\* h has nothing to do with an approval or a claim after its step.
Watched == TransferSteps \cup {"approve_write", "claim_write"}

\* Rows that are new after the step name assignment rows that exist, and are not drops
\* that ask something in return.
NewRowsFit ==
  \A r \in Requests : request[r].status = "NONE" =>
     \/ /\ request'[r].status = "NONE" /\ request'[r].type = request[r].type
        /\ request'[r].counterparty = request[r].counterparty
        /\ request'[r].back \in {request[r].back, None}
     \/ /\ request'[r].status \in ActiveStatuses
        /\ request'[r].type = "DROP" => request'[r].back = None
        /\ assignment'[request'[r].shift][request'[r].initiator] # "NONE"
        /\ request'[r].back # None =>
             /\ request'[r].counterparty \in Staff
             /\ assignment'[request'[r].back][request'[r].counterparty] # "NONE"

\* A request becomes APPROVED only by h at approve_write.
ApprovesOnly(h) ==
  \A r \in Requests : request'[r].status = "APPROVED" =>
     request[r].status = "APPROVED" \/ (At(h, "approve_write") /\ job[h].req = r)

LEMMA OfferKeepsApproval ==
  ASSUME IInv, OffersStand, NEW r \in Requests, request[r].status # "NONE"
  PROVE  /\ HandedOver(r) => HandedOver(r)'
         /\ HandedBack(r) => HandedBack(r)'
BY DEF OffersStand, HandedOver, HandedBack

LEMMA ApprovalStands ==
  ASSUME IInv, OffersStand, NEW j \in Job, JobOK(j), TargetOK(j), ApprovalOK(j)
  PROVE  ApprovalOK(j)'
<1>1. CASE j.pc \in TransferSteps
  <2>1. j.req \in Requests /\ request[j.req].status # "NONE"
    BY <1>1 DEF JobOK, TargetOK
  <2>2. CASE FirstLeg(j)
    <3>1. FirstLeg(j)'
      BY <2>1, <2>2 DEF FirstLeg, OffersStand
    <3> QED
      BY <1>1, <3>1 DEF ApprovalOK, TransferSteps
  <2>3. CASE ReturnLeg(j)
    <3>1. ReturnLeg(j)'
      BY <2>1, <2>3, OfferKeepsApproval DEF ReturnLeg, OffersStand
    <3> QED
      BY <1>1, <3>1 DEF ApprovalOK, TransferSteps
  <2> QED
    BY <1>1, <2>2, <2>3 DEF ApprovalOK
<1>2. CASE j.pc = "approve_write"
  <2>1. j.req \in Requests /\ request[j.req].status # "NONE"
    BY <1>2 DEF JobOK, TargetOK, AnswerSteps
  <2> QED
    BY <1>2, <2>1, OfferKeepsApproval DEF ApprovalOK, TransferSteps
<1>3. CASE j.pc \notin TransferSteps \cup {"approve_write"}
  BY <1>3 DEF ApprovalOK
<1> QED
  BY <1>1, <1>2, <1>3

\* The invariant holds after a step of h, provided that it holds of h.
LEMMA StepKeepsRInv ==
  ASSUME IInv, IInv', RInv, NEW h \in Procs, Stays(h), NewRowsFit, ApprovesOnly(h),
         ApprovalOK(job[h])',
         At(h, "claim_write")' => (request[job[h].req].type = "DROP")'
  PROVE  RInv'
<1> USE DEF RInv
<1>1. DropsAreGifts' /\ ReturnsAreOwned'
  BY DEF DropsAreGifts, ReturnsAreOwned, Stays, OffersStand, NewRowsFit
<1>2. ClaimsAreOfDrops'
  <2> SUFFICES ASSUME NEW g \in Procs, g # h, At(g, "claim_write")'
               PROVE  request'[job'[g].req].type = "DROP"
    BY DEF ClaimsAreOfDrops
  <2>1. job'[g] = job[g] /\ At(g, "claim_write")
    BY DEF Stays, OthersStay, At
  <2>2. job[g].req \in Requests /\ request[job[g].req].status # "NONE"
    BY <2>1 DEF IInv, JobsOK, JobOK, TargetsOK, TargetOK, AnswerSteps, At
  <2> QED
    BY <2>1, <2>2 DEF ClaimsAreOfDrops, Stays, OffersStand
<1>3. NoDanglingRequest'
  <2> SUFFICES ASSUME NEW r \in Requests, request'[r].status # "NONE"
               PROVE  /\ assignment'[request'[r].shift][request'[r].initiator] # "NONE"
                      /\ request'[r].back # None =>
                           assignment'[request'[r].back][request'[r].counterparty] # "NONE"
    BY DEF NoDanglingRequest
  <2>1. CASE request[r].status = "NONE"
    BY <2>1 DEF NewRowsFit
  <2>2. CASE request[r].status # "NONE"
    <3>1. /\ request'[r].shift = request[r].shift /\ request'[r].initiator = request[r].initiator
          /\ request[r].shift \in Shifts /\ request[r].initiator \in Staff
      BY <2>2 DEF Stays, OffersStand, IInv, RequestsOK, RequestOK
    <3>2. assignment'[request'[r].shift][request'[r].initiator] # "NONE"
      BY <2>2, <3>1 DEF NoDanglingRequest, Stays, NamedRowsStay
    <3>3. ASSUME request'[r].back # None
          PROVE  assignment'[request'[r].back][request'[r].counterparty] # "NONE"
      <4>1. /\ request'[r].back = request[r].back
            /\ request'[r].counterparty = request[r].counterparty
        BY <2>2, <3>3 DEF Stays, OffersStand
      <4>2. request[r].back \in Shifts /\ request[r].counterparty \in Staff
        BY <3>3, <4>1 DEF IInv, TypeOK, SwapRequest, ReturnsAreOwned
      <4> QED
        BY <2>2, <3>3, <4>1, <4>2 DEF NoDanglingRequest, Stays, NamedRowsStay
    <3> QED
      BY <3>2, <3>3
  <2> QED
    BY <2>1, <2>2
<1>4. ApprovalsOK'
  <2> SUFFICES ASSUME NEW g \in Procs, g # h PROVE ApprovalOK(job[g])'
    BY DEF ApprovalsOK
  <2>1. job'[g] = job[g]
    BY DEF Stays, OthersStay
  <2>2. job[g] \in Job /\ JobOK(job[g]) /\ TargetOK(job[g]) /\ ApprovalOK(job[g])
    BY DEF IInv, TypeOK, JobsOK, TargetsOK, ApprovalsOK
  <2> QED
    BY <2>1, <2>2, ApprovalStands DEF Stays
<1>5. ApprovedMeansMoved'
  <2> SUFFICES ASSUME NEW r \in Requests, request'[r].status = "APPROVED"
               PROVE  HandedOver(r)' /\ HandedBack(r)'
    BY DEF ApprovedMeansMoved, HandedOver, HandedBack
  <2>1. request[r].status # "NONE"
    BY DEF NewRowsFit, ActiveStatuses
  <2>2. HandedOver(r) /\ HandedBack(r)
    BY DEF ApprovesOnly, ApprovedMeansMoved, HandedOver, HandedBack, ApprovalsOK,
           ApprovalOK, At
  <2> QED
    BY <2>1, <2>2, OfferKeepsApproval DEF Stays
<1> QED
  BY <1>1, <1>2, <1>3, <1>4, <1>5

-----------------------------------------------------------------------------
(* Steps that leave requests and transfers alone *)

RowsStay ==
  \A s \in Shifts, p \in Staff : assignment[s][p] # "NONE" => assignment'[s][p] # "NONE"

\* h touches no request, no transfer and no row, and is not about to.
Aside(h) ==
  /\ UNCHANGED <<request, moved>> /\ RowsStay /\ OthersStay(h)
  /\ job'[h].pc \notin Watched

LEMMA SameRequests ==
  ASSUME IInv, UNCHANGED request, RowsStay, \A r \in Requests : moved[r] \subseteq moved'[r]
  PROVE  /\ OffersStand /\ NamedRowsStay /\ NewRowsFit
         /\ \A h \in Procs : ApprovesOnly(h)
BY DEF RowsStay, OffersStand, NamedRowsStay, NewRowsFit, ApprovesOnly

LEMMA AsideKeepsRInv ==
  ASSUME IInv, IInv', RInv, NEW h \in Procs, Aside(h)
  PROVE  RInv'
<1>1. Stays(h) /\ NewRowsFit /\ ApprovesOnly(h)
  BY SameRequests DEF Aside, Stays
<1>2. ApprovalOK(job[h])'
  BY DEF Aside, Watched, ApprovalOK, TransferSteps
<1>3. ~At(h, "claim_write")'
  BY DEF Aside, Watched, At
<1> QED
  BY <1>1, <1>2, <1>3, StepKeepsRInv

\* Four shapes of a step that is aside.
LEMMA ContinueAside ==
  ASSUME IInv, NEW h \in Procs, NEW j, Continue(h, j), j.pc \notin Watched,
         UNCHANGED <<request, moved>>, RowsStay
  PROVE  Aside(h)
BY DEF IInv, TypeOK, Continue, Aside, OthersStay

LEMMA FinishAside ==
  ASSUME IInv, NEW h \in Procs, Finish(h), UNCHANGED <<request, moved>>, RowsStay
  PROVE  Aside(h)
BY ContinueAside, NoJobIsIdle DEF Finish, Watched, TransferSteps

LEMMA AdvanceAside ==
  ASSUME IInv, NEW h \in Procs, NEW pc \in Steps \ Watched, Advance(h, pc),
         UNCHANGED <<request, moved>>, RowsStay
  PROVE  Aside(h)
<1>1. job[h] \in Job
  BY DEF IInv, TypeOK
<1>2. [job[h] EXCEPT !.pc = pc].pc = pc
  BY <1>1 DEF Job
<1> QED
  BY <1>2, ContinueAside DEF Advance

LEMMA RefuseAside ==
  ASSUME IInv, NEW h \in Procs, Refuse(h)
  PROVE  Aside(h)
BY FinishAside DEF Refuse, swapVars, rosterVars, RowsStay

LEMMA LocalAside ==
  ASSUME OnlyJob
  PROVE  UNCHANGED <<request, moved>> /\ RowsStay
BY DEF OnlyJob, swapVars, rosterVars, RowsStay

LEMMA AssignStepsAside ==
  ASSUME IInv, NEW h \in Procs,
         AssignLock(h) \/ AssignCount(h) \/ AssignCheck(h) \/ AssignWrite(h)
  PROVE  Aside(h)
<1>1. CASE Refuse(h)
  BY <1>1, RefuseAside
<1>2. CASE AssignLock(h)
  BY <1>2, AdvanceAside
     DEF AssignLock, TakeLockAndGoTo, Steps, LockedSteps, Watched, TransferSteps, swapVars,
         rosterVars, RowsStay
<1>3. ASSUME NEW pc \in {"assign_check", "assign_write"}, Advance(h, pc), OnlyJob
      PROVE  Aside(h)
  BY <1>3, AdvanceAside, LocalAside DEF Steps, LockedSteps, Watched, TransferSteps
<1>4. CASE /\ Seat(job[h].shift, job[h].to, job[h].win)
           /\ Finish(h)
           /\ UNCHANGED <<shiftVars, swapVars, worldVars, queue>>
  <2>1. RowsStay
    BY <1>4 DEF Seat, RowsStay, IInv, TypeOK
  <2> QED
    BY <1>4, <2>1, FinishAside DEF swapVars
<1> QED
  BY <1>1, <1>2, <1>3, <1>4 DEF AssignCount, AssignCheck, AssignWrite

LEMMA UnassignStepsAside ==
  ASSUME IInv, NEW h \in Procs, UnassignWrite(h) \/ CancelFind(h)
  PROVE  Aside(h)
<1>1. CASE Refuse(h)
  BY <1>1, RefuseAside
<1>2. CASE /\ Unseat(job[h].shift, job[h].to)
           /\ Continue(h, [NoJob EXCEPT !.pc = "cancel_find", !.shift = job[h].shift,
                                        !.rows = {job[h].to}])
           /\ UNCHANGED <<shiftVars, swapVars, worldVars, userLock, queue>>
  <2>1. RowsStay
    BY <1>2 DEF Unseat, RowsStay, IInv, TypeOK
  <2> QED
    BY <1>2, <2>1, ContinueAside DEF swapVars, NoJob, Watched, TransferSteps
<1>3. CASE CancelFind(h)
  <2> DEFINE hits == PendingFor(job[h].shift, job[h].rows)
             j == IF hits = {} THEN NoJob ELSE [job[h] EXCEPT !.pc = "cancel_all", !.hits = hits]
  <2>1. Continue(h, j) /\ OnlyJob
    BY <1>3 DEF CancelFind
  <2>2. job[h] \in Job
    BY DEF IInv, TypeOK
  <2>3. j.pc \in {"idle", "cancel_all"}
    BY <2>2, NoJobIsIdle DEF Job
  <2> HIDE DEF j
  <2> QED
    BY <2>1, <2>3, ContinueAside, LocalAside DEF Watched, TransferSteps
<1> QED
  BY <1>1, <1>2, <1>3 DEF UnassignWrite

LEMMA ShiftStepsAside ==
  ASSUME IInv, NEW h \in Procs,
         \/ CreateWrite(h) \/ EditWrite(h) \/ EditRows(h) \/ RemoveCount(h)
         \/ PublishWrite(h) \/ UnpublishWrite(h)
  PROVE  Aside(h)
<1>1. CASE Refuse(h)
  BY <1>1, RefuseAside
<1>2. CASE CreateWrite(h) \/ PublishWrite(h) \/ UnpublishWrite(h)
  BY <1>2, FinishAside
     DEF CreateWrite, PublishWrite, UnpublishWrite, SetPublished, swapVars, rosterVars, RowsStay
<1>3. CASE /\ Continue(h, [NoJob EXCEPT !.pc = "edit_rows", !.shift = job[h].shift])
           /\ UNCHANGED <<life, assignment, swapVars, worldVars, userLock, queue>>
  BY <1>3, ContinueAside DEF swapVars, NoJob, Watched, TransferSteps, RowsStay
<1>4. CASE EditRows(h)
  <2> DEFINE holders == HoldersOf(job[h].shift)
             j == IF holders = {} THEN NoJob
                  ELSE [job[h] EXCEPT !.pc = "cancel_find", !.rows = holders]
  <2>1. Continue(h, j) /\ OnlyJob
    BY <1>4 DEF EditRows
  <2>2. job[h] \in Job
    BY DEF IInv, TypeOK
  <2>3. j.pc \in {"idle", "cancel_find"}
    BY <2>2, NoJobIsIdle DEF Job
  <2> HIDE DEF j
  <2> QED
    BY <2>1, <2>3, ContinueAside, LocalAside DEF Watched, TransferSteps
<1>5. CASE Advance(h, "remove_delete") /\ OnlyJob
  BY <1>5, AdvanceAside, LocalAside DEF Steps, Watched, TransferSteps
<1> QED
  BY <1>1, <1>2, <1>3, <1>4, <1>5 DEF EditWrite, RemoveCount

LEMMA AssignmentCallAside ==
  ASSUME IInv, NEW h \in Procs, AssignmentCall(h)
  PROVE  Aside(h)
<1> USE LocalAside DEF NoJob, Watched, TransferSteps
<1>1. ASSUME NEW s \in Shifts, NEW p \in Staff, AssignStart(h, s, p) PROVE Aside(h)
  BY <1>1, ContinueAside DEF AssignStart
<1>2. ASSUME NEW s \in Shifts, NEW p \in Staff, UnassignStart(h, s, p) PROVE Aside(h)
  BY <1>2, ContinueAside DEF UnassignStart
<1>3. ASSUME NEW s \in Shifts, NEW w \in Windows, NEW n \in Needs, CreateStart(h, s, w, n)
      PROVE  Aside(h)
  BY <1>3, ContinueAside DEF CreateStart
<1>4. ASSUME NEW s \in Shifts, NEW w \in Windows, NEW n \in Needs, EditStart(h, s, w, n)
      PROVE  Aside(h)
  BY <1>4, ContinueAside DEF EditStart, BeginEdit
<1>5. ASSUME NEW s \in Shifts, RemoveStart(h, s) PROVE Aside(h)
  BY <1>5, ContinueAside DEF RemoveStart
<1>6. CASE PublishStart(h) \/ UnpublishStart(h)
  BY <1>6, ContinueAside DEF PublishStart, UnpublishStart
<1> QED
  BY <1>1, <1>2, <1>3, <1>4, <1>5, <1>6 DEF AssignmentCall

LEMMA QueueStepsAside ==
  ASSUME IInv, NEW h \in Procs, DropEnqueue(h) \/ CancelJob(h) \/ StalledJob(h)
  PROVE  Aside(h)
BY FinishAside DEF DropEnqueue, CancelJob, StalledJob, swapVars, rosterVars, RowsStay

LEMMA ExpireStartAside ==
  ASSUME IInv, NEW r \in Requests, ExpireStart(r)
  PROVE  Aside(Worker)
<1>1. Worker \in Procs
  BY DEF Procs
<1>2. UNCHANGED <<request, moved>> /\ RowsStay
  BY DEF ExpireStart, swapVars, rosterVars, RowsStay
<1>3. CASE Begin(Worker, r, "expire_write")
  BY <1>1, <1>2, <1>3, ContinueAside DEF Begin, NoJob, Watched, TransferSteps
<1>4. CASE UNCHANGED job
  BY <1>1, <1>2, <1>4 DEF ExpireStart, Idle, Aside, OthersStay, Watched, TransferSteps
<1> QED
  BY <1>3, <1>4 DEF ExpireStart

LEMMA AnswerStartAside ==
  ASSUME IInv, NEW h \in Procs, NEW r \in Requests,
         \/ AcceptStart(h, r) \/ DeclineStart(h, r) \/ CancelStart(h, r) \/ RejectStart(h, r)
         \/ \E p, q \in Staff, s \in Shifts, b \in Shifts \cup {None} : SwapStart(h, r, p, s, q, b)
         \/ \E p \in Staff, s \in Shifts : DropStart(h, r, p, s)
  PROVE  Aside(h)
<1> USE LocalAside DEF NoJob, Watched, TransferSteps
<1>1. CASE AcceptStart(h, r) \/ DeclineStart(h, r) \/ CancelStart(h, r) \/ RejectStart(h, r)
  BY <1>1, ContinueAside DEF AcceptStart, DeclineStart, CancelStart, RejectStart, Begin
<1>2. ASSUME NEW p \in Staff, NEW q \in Staff, NEW s \in Shifts, NEW b \in Shifts \cup {None},
             SwapStart(h, r, p, s, q, b)
      PROVE  Aside(h)
  BY <1>2, ContinueAside DEF SwapStart
<1>3. ASSUME NEW p \in Staff, NEW s \in Shifts, DropStart(h, r, p, s) PROVE Aside(h)
  BY <1>3, ContinueAside DEF DropStart
<1> QED
  BY <1>1, <1>2, <1>3

-----------------------------------------------------------------------------
(* Steps that write requests *)

LEMMA CreationKeepsRInv ==
  ASSUME IInv, IInv', RInv, NEW h \in Procs, job[h].pc \in RowCreations,
         NEW q \in SwapRequest, RowsExist(h),
         q.status \in {"PENDING", "PENDING_TARGET"}, q.initiator = job[h].from,
         q.shift = job[h].shift, q.type = "DROP" => q.back = None,
         q.back # None => q.back = job[h].back /\ q.counterparty = job[h].to /\ job[h].to \in Staff,
         request' = [request EXCEPT ![job[h].req] = q],
         UNCHANGED <<assignment, moved>>, OthersStay(h), job'[h].pc \notin Watched
  PROVE  RInv'
<1>1. job[h].req \in Requests /\ request[job[h].req].status = "NONE"
  BY DEF IInv, JobsOK, JobOK, RowCreations, CreationSteps, RequestsDiffer
<1>2. /\ request'[job[h].req] = q
      /\ \A r \in Requests \ {job[h].req} : request'[r] = request[r]
  BY <1>1 DEF IInv, TypeOK
<1>3. Stays(h)
  BY <1>1, <1>2 DEF Stays, OffersStand, NamedRowsStay
<1>4. NewRowsFit
  BY <1>1, <1>2 DEF NewRowsFit, ActiveStatuses, RowsExist
<1>5. ApprovesOnly(h)
  BY <1>2 DEF ApprovesOnly
<1>6. ApprovalOK(job[h])' /\ ~At(h, "claim_write")'
  BY DEF Watched, ApprovalOK, TransferSteps, At
<1> QED
  BY <1>3, <1>4, <1>5, <1>6, StepKeepsRInv

LEMMA SwapCreateKeepsRInv ==
  ASSUME IInv, IInv', RInv, NEW h \in Procs, SwapCreate(h)
  PROVE  RInv'
<1> DEFINE q == [type |-> "SWAP", status |-> "PENDING_TARGET", initiator |-> job[h].from,
                 shift |-> job[h].shift, counterparty |-> job[h].to, back |-> job[h].back,
                 expiresAt |-> 0]
<1>1. CASE Refuse(h)
  BY <1>1, RefuseAside, AsideKeepsRInv
<1>2. CASE /\ RowsExist(h)
           /\ request' = [request EXCEPT ![job[h].req] = q]
           /\ Finish(h)
           /\ UNCHANGED <<shiftVars, rosterVars, moved, worldVars, userLock, queue>>
  <2>1. job[h].pc = "swap_create" /\ job[h] \in Job /\ JobOK(job[h])
    BY DEF SwapCreate, At, IInv, JobsOK, TypeOK
  <2>2. /\ job[h].from \in Staff /\ job[h].to \in Staff
        /\ job[h].shift \in Shifts /\ job[h].back \in Shifts \cup {None}
    BY <2>1 DEF JobOK, Job
  <2>3. q \in SwapRequest
    BY <2>2 DEF SwapRequest, ActiveStatuses
  <2>4. OthersStay(h) /\ job'[h].pc \notin Watched
    BY <1>2 DEF Finish, Continue, OthersStay, NoJob, Watched, TransferSteps, IInv, TypeOK
  <2>5. UNCHANGED <<assignment, moved>>
    BY <1>2 DEF rosterVars
  <2>6. /\ q.status \in {"PENDING", "PENDING_TARGET"} /\ q.initiator = job[h].from
        /\ q.shift = job[h].shift /\ q.type = "SWAP" /\ q.back = job[h].back
        /\ q.counterparty = job[h].to
    OBVIOUS
  <2> HIDE DEF q
  <2> QED
    BY <1>2, <2>1, <2>2, <2>3, <2>4, <2>5, <2>6, CreationKeepsRInv DEF RowCreations
<1> QED
  BY <1>1, <1>2 DEF SwapCreate

LEMMA DropCreateKeepsRInv ==
  ASSUME IInv, IInv', RInv, NEW h \in Procs, DropCreate(h)
  PROVE  RInv'
<1> DEFINE q == [type |-> "DROP", status |-> "PENDING", initiator |-> job[h].from,
                 shift |-> job[h].shift, counterparty |-> None, back |-> None,
                 expiresAt |-> job[h].expiresAt]
<1>1. CASE Refuse(h)
  BY <1>1, RefuseAside, AsideKeepsRInv
<1>2. CASE /\ RowsExist(h)
           /\ request' = [request EXCEPT ![job[h].req] = q]
           /\ Advance(h, "drop_enqueue")
           /\ UNCHANGED <<shiftVars, rosterVars, moved, worldVars, userLock, queue>>
  <2>1. job[h].pc = "drop_create" /\ job[h] \in Job /\ JobOK(job[h])
    BY DEF DropCreate, DropCreateThen, At, IInv, JobsOK, TypeOK
  <2>2. job[h].from \in Staff /\ job[h].shift \in Shifts /\ job[h].expiresAt \in Int
    BY <2>1 DEF JobOK, Job
  <2>3. q \in SwapRequest
    BY <2>2 DEF SwapRequest, ActiveStatuses
  <2>4. OthersStay(h) /\ job'[h].pc = "drop_enqueue"
    BY <1>2, <2>1 DEF Advance, Continue, OthersStay, Job, IInv, TypeOK
  <2>5. UNCHANGED <<assignment, moved>>
    BY <1>2 DEF rosterVars
  <2>6. /\ q.status \in {"PENDING", "PENDING_TARGET"} /\ q.initiator = job[h].from
        /\ q.shift = job[h].shift /\ q.back = None
    OBVIOUS
  <2> HIDE DEF q
  <2> QED
    BY <1>2, <2>1, <2>2, <2>3, <2>4, <2>5, <2>6, CreationKeepsRInv
       DEF RowCreations, Watched, TransferSteps
<1> QED
  BY <1>1, <1>2 DEF DropCreate, DropCreateThen

\* An answer, a decision, an expiry: one request changes its status.
LEMMA StatusStepKeepsRInv ==
  ASSUME IInv, IInv', RInv, NEW h \in Procs, NEW at \in AnswerSteps,
         NEW status \in ActiveStatuses \cup ResolvedStatuses,
         status = "APPROVED" => at = "approve_write",
         NEW then \in {"idle", "cancel_job"}, StatusStep(h, at, status, then)
  PROVE  RInv'
<1> DEFINE r == job[h].req
<1>1. r \in Requests /\ request[r].status # "NONE" /\ job[h] \in Job
  BY DEF StatusStep, At, IInv, TypeOK, JobsOK, JobOK, TargetsOK, TargetOK
<1>2. /\ request'[r].status = status /\ request'[r].counterparty = request[r].counterparty
      /\ request'[r].initiator = request[r].initiator /\ request'[r].shift = request[r].shift
      /\ request'[r].type = request[r].type /\ request'[r].back = request[r].back
      /\ \A x \in Requests \ {r} : request'[x] = request[x]
  BY <1>1 DEF StatusStep, SetStatus, IInv, TypeOK, SwapRequest
<1>3. UNCHANGED <<assignment, moved>>
  BY DEF StatusStep, rosterVars
<1>4. OthersStay(h) /\ job'[h].pc \in {"idle", "cancel_job"}
  BY <1>1, NoJobIsIdle
     DEF StatusStep, Finish, Advance, Continue, OthersStay, Job, IInv, TypeOK
<1>5. Stays(h)
  BY <1>1, <1>2, <1>3, <1>4 DEF Stays, OffersStand, NamedRowsStay, ActiveStatuses, ResolvedStatuses
<1>6. NewRowsFit
  BY <1>1, <1>2 DEF NewRowsFit
<1>7. ApprovesOnly(h)
  BY <1>2 DEF ApprovesOnly, StatusStep, At
<1>8. ApprovalOK(job[h])' /\ ~At(h, "claim_write")'
  BY <1>4 DEF ApprovalOK, TransferSteps, At
<1> QED
  BY <1>5, <1>6, <1>7, <1>8, StepKeepsRInv

LEMMA ClaimStartKeepsRInv ==
  ASSUME IInv, IInv', RInv, NEW h \in Procs, NEW r \in Requests, NEW q \in Staff,
         ClaimStart(h, r, q)
  PROVE  RInv'
<1>1. Stays(h) /\ NewRowsFit /\ ApprovesOnly(h)
  BY SameRequests, LocalAside
     DEF ClaimStart, Continue, OnlyJob, Stays, OthersStay, IInv, TypeOK
<1>2. job'[h].pc = "claim_write" /\ job'[h].req = r
  BY DEF ClaimStart, Continue, NoJob, IInv, TypeOK
<1>3. request'[r].type = "DROP"
  BY DEF ClaimStart, OnlyJob, swapVars
<1>4. ApprovalOK(job[h])'
  BY <1>2 DEF ApprovalOK, TransferSteps
<1> QED
  BY <1>1, <1>2, <1>3, <1>4, StepKeepsRInv

LEMMA ClaimWriteKeepsRInv ==
  ASSUME IInv, IInv', RInv, NEW h \in Procs, ClaimWrite(h)
  PROVE  RInv'
<1> DEFINE r == job[h].req
<1>1. /\ r \in Requests /\ request[r].status # "NONE"
      /\ request[r].type = "DROP" /\ request[r].back = None
  BY DEF ClaimWrite, At, IInv, JobsOK, JobOK, TargetsOK, TargetOK, AnswerSteps, RInv,
         ClaimsAreOfDrops, DropsAreGifts
<1>2. /\ request'[r].status = "PENDING_MANAGER"
      /\ request'[r].initiator = request[r].initiator /\ request'[r].shift = request[r].shift
      /\ request'[r].type = request[r].type /\ request'[r].back = request[r].back
      /\ \A x \in Requests \ {r} : request'[x] = request[x]
  BY <1>1 DEF ClaimWrite, IInv, TypeOK, SwapRequest
<1>3. UNCHANGED <<assignment, moved>>
  BY DEF ClaimWrite, rosterVars
<1>4. OthersStay(h) /\ job'[h].pc = "idle"
  BY NoJobIsIdle DEF ClaimWrite, Finish, Continue, OthersStay, IInv, TypeOK
<1>5. Stays(h)
  BY <1>1, <1>2, <1>3, <1>4 DEF Stays, OffersStand, NamedRowsStay
<1>6. NewRowsFit /\ ApprovesOnly(h)
  BY <1>1, <1>2 DEF NewRowsFit, ApprovesOnly
<1>7. ApprovalOK(job[h])' /\ ~At(h, "claim_write")'
  BY <1>4 DEF ApprovalOK, TransferSteps, At
<1> QED
  BY <1>5, <1>6, <1>7, StepKeepsRInv

LEMMA CancelAllKeepsRInv ==
  ASSUME IInv, IInv', RInv, NEW h \in Procs, CancelAll(h)
  PROVE  RInv'
<1>1. \A r \in job[h].hits : request[r].status # "NONE"
  BY DEF CancelAll, At, IInv, TargetsOK, TargetOK
<1>2. \A r \in Requests :
        /\ r \in job[h].hits => request'[r].status = "CANCELLED"
        /\ r \notin job[h].hits => request'[r] = request[r]
        /\ request'[r].initiator = request[r].initiator /\ request'[r].shift = request[r].shift
        /\ request'[r].type = request[r].type /\ request'[r].back = request[r].back
        /\ request'[r].counterparty = request[r].counterparty
  BY DEF CancelAll, IInv, TypeOK, SwapRequest
<1>3. UNCHANGED <<assignment, moved>>
  BY DEF CancelAll, rosterVars
<1>4. OthersStay(h) /\ job'[h].pc = "idle"
  BY NoJobIsIdle DEF CancelAll, Finish, Continue, OthersStay, IInv, TypeOK
<1>5. Stays(h)
  BY <1>1, <1>2, <1>3, <1>4 DEF Stays, OffersStand, NamedRowsStay
<1>6. NewRowsFit /\ ApprovesOnly(h)
  BY <1>1, <1>2 DEF NewRowsFit, ApprovesOnly
<1>7. ApprovalOK(job[h])' /\ ~At(h, "claim_write")'
  BY <1>4 DEF ApprovalOK, TransferSteps, At
<1> QED
  BY <1>5, <1>6, <1>7, StepKeepsRInv

\* A deletion spares every row a request names: RESTRICT refuses it for the row offered,
\* SET NULL makes the request forget the row asked in return.
LEMMA RemoveDeleteKeepsRInv ==
  ASSUME IInv, IInv', RInv, NEW h \in Procs, RemoveDelete(h)
  PROVE  RInv'
<1> DEFINE s == job[h].shift
<1>1. CASE Refuse(h)
  BY <1>1, RefuseAside, AsideKeepsRInv
<1>2. CASE /\ ~Restricted(s)
           /\ assignment' = [assignment EXCEPT ![s] = [p \in Staff |-> "NONE"]]
           /\ request' = [r \in Requests |-> IF request[r].back = s
                                             THEN [request[r] EXCEPT !.back = None]
                                             ELSE request[r]]
           /\ Finish(h)
           /\ UNCHANGED moved
  <2>1. s \in Shifts /\ s # None
    BY NoneAssumption DEF RemoveDelete, At, IInv, JobsOK, JobOK, ShiftSteps
  <2>2. \A r \in Requests :
          /\ request'[r].status = request[r].status
          /\ request'[r].initiator = request[r].initiator /\ request'[r].shift = request[r].shift
          /\ request'[r].type = request[r].type
          /\ request'[r].counterparty = request[r].counterparty
          /\ request'[r].back = IF request[r].back = s THEN None ELSE request[r].back
    BY <1>2 DEF IInv, TypeOK, SwapRequest
  <2>3. OthersStay(h) /\ job'[h].pc = "idle"
    BY <1>2, NoJobIsIdle DEF Finish, Continue, OthersStay, IInv, TypeOK
  <2>4. NamedRowsStay
    BY <1>2, <2>1, <2>2 DEF NamedRowsStay, Restricted, IInv, TypeOK
  <2>5. Stays(h)
    BY <1>2, <2>2, <2>3, <2>4 DEF Stays, OffersStand
  <2>6. NewRowsFit /\ ApprovesOnly(h)
    BY <2>2 DEF NewRowsFit, ApprovesOnly
  <2>7. ApprovalOK(job[h])' /\ ~At(h, "claim_write")'
    BY <2>3 DEF ApprovalOK, TransferSteps, At
  <2> QED
    BY <2>5, <2>6, <2>7, StepKeepsRInv
<1> QED
  BY <1>1, <1>2 DEF RemoveDelete

-----------------------------------------------------------------------------
(* The steps of an approval *)

LEMMA TransferJobFields ==
  ASSUME NEW r, NEW s, NEW p, NEW q, NEW w, NEW b, NEW bw
  PROVE  LET j == TransferJob(r, s, p, q, w, b, bw)
         IN  /\ j.pc = "transfer_lock" /\ j.req = r /\ j.shift = s /\ j.from = p
             /\ j.to = q /\ j.win = w /\ j.back = b /\ j.backWin = bw
BY DEF TransferJob, NoJob

LEMMA ApproveStartKeepsRInv ==
  ASSUME IInv, IInv', RInv, NEW h \in Procs, NEW r \in Requests, ApproveStart(h, r)
  PROVE  RInv'
<1>1. Stays(h) /\ NewRowsFit /\ ApprovesOnly(h)
  BY SameRequests, LocalAside
     DEF ApproveStart, BeginApproval, Continue, OnlyJob, Stays, OthersStay, IInv, TypeOK
<1>2. /\ job'[h].pc = "transfer_lock" /\ job'[h].req = r
      /\ job'[h].shift = request[r].shift /\ job'[h].from = request[r].initiator
      /\ job'[h].to = request[r].counterparty /\ job'[h].back = request[r].back
  BY TransferJobFields DEF ApproveStart, BeginApproval, Continue, IInv, TypeOK
<1>3. FirstLeg(job[h])'
  BY <1>2 DEF ApproveStart, OnlyJob, swapVars, FirstLeg
<1>4. ApprovalOK(job[h])' /\ ~At(h, "claim_write")'
  BY <1>2, <1>3 DEF ApprovalOK, TransferSteps, At
<1> QED
  BY <1>1, <1>4, StepKeepsRInv

\* From one step of a transfer to the next, with the same local variables.
LEMMA TransferAdvance ==
  ASSUME IInv, IInv', RInv, NEW h \in Procs, job[h].pc \in TransferSteps,
         NEW pc \in TransferSteps, Advance(h, pc), UNCHANGED <<request, moved>>, RowsStay
  PROVE  RInv'
<1>1. job[h] \in Job /\ ApprovalOK(job[h])
  BY DEF IInv, TypeOK, RInv, ApprovalsOK
<1>2. /\ job'[h].pc = pc /\ job'[h].req = job[h].req /\ job'[h].shift = job[h].shift
      /\ job'[h].from = job[h].from /\ job'[h].to = job[h].to /\ job'[h].back = job[h].back
      /\ OthersStay(h)
  BY <1>1 DEF Advance, Continue, OthersStay, Job, IInv, TypeOK
<1>3. Stays(h) /\ NewRowsFit /\ ApprovesOnly(h)
  BY <1>2, SameRequests DEF Stays
<1>4. ApprovalOK(job[h])'
  <2>1. FirstLeg(job[h]) => FirstLeg(job[h])'
    BY <1>2 DEF FirstLeg
  <2>2. ReturnLeg(job[h]) => ReturnLeg(job[h])'
    BY <1>2 DEF ReturnLeg, HandedOver
  <2> QED
    BY <1>1, <1>2, <2>1, <2>2 DEF ApprovalOK, TransferSteps
<1>5. ~At(h, "claim_write")'
  BY <1>2 DEF TransferSteps, At
<1> QED
  BY <1>3, <1>4, <1>5, StepKeepsRInv

LEMMA TransferReadsKeepRInv ==
  ASSUME IInv, IInv', RInv, NEW h \in Procs, TransferLock(h) \/ TransferCheck(h)
  PROVE  RInv'
<1>1. CASE TransferLock(h)
  BY <1>1, TransferAdvance
     DEF TransferLock, TakeLockAndGoTo, At, TransferSteps, swapVars, rosterVars, RowsStay
<1>2. CASE Advance(h, "transfer_write") /\ OnlyJob /\ At(h, "transfer_check")
  BY <1>2, TransferAdvance, LocalAside DEF At, TransferSteps
<1>3. CASE Refuse(h)
  BY <1>3, RefuseAside, AsideKeepsRInv
<1> QED
  BY <1>1, <1>2, <1>3 DEF TransferCheck

\* A committed transfer is on record: after the first leg the shift has been handed over,
\* after the return leg the other one has been handed back.
LEMMA TransferWriteKeepsRInv ==
  ASSUME IInv, IInv', RInv, NEW h \in Procs, TransferWrite(h)
  PROVE  RInv'
<1> DEFINE s == job[h].shift
           p == job[h].from
           q == job[h].to
<1>0. PICK r : r = job[h].req
  OBVIOUS
<1>1. CASE Refuse(h)
  BY <1>1, RefuseAside, AsideKeepsRInv
<1>2. CASE /\ Transfer(h, s, p, q)
           /\ Continue(h, AfterTransfer(h))
           /\ UNCHANGED request
  <2>1. /\ job[h].pc = "transfer_write" /\ job[h] \in Job /\ JobOK(job[h])
        /\ r \in Requests /\ request[r].status # "NONE"
        /\ s \in Shifts /\ p \in Staff /\ q \in Staff
    BY <1>0 DEF TransferWrite, At, IInv, TypeOK, JobsOK, JobOK, TargetsOK, TargetOK, TransferSteps
  <2>2. /\ moved'[r] = moved[r] \cup {<<s, p, q>>}
        /\ \A x \in Requests : moved[x] \subseteq moved'[x]
    BY <1>0, <1>2, <2>1 DEF Transfer, IInv, TypeOK
  <2>3. RowsStay
    BY <1>2, <2>1 DEF Transfer, RowsStay, IInv, TypeOK
  <2>4. OthersStay(h) /\ job'[h] = AfterTransfer(h)
    BY <1>2 DEF Continue, OthersStay, IInv, TypeOK
  <2>5. Stays(h) /\ NewRowsFit /\ ApprovesOnly(h)
    BY <1>2, <2>2, <2>3, <2>4, SameRequests DEF Stays
  <2>6. FirstLeg(job[h]) \/ ReturnLeg(job[h])
    BY <2>1 DEF RInv, ApprovalsOK, ApprovalOK, TransferSteps
  <2>7. HandedOver(r)'
    <3>1. CASE FirstLeg(job[h])
      BY <1>0, <1>2, <2>1, <2>2, <3>1 DEF FirstLeg, HandedOver
    <3>2. CASE ReturnLeg(job[h])
      BY <1>0, <1>2, <2>1, <2>2, <3>2 DEF ReturnLeg, HandedOver
    <3> QED
      BY <2>6, <3>1, <3>2
  <2>8. CASE job[h].back = None
    <3>1. job'[h].pc = "approve_write" /\ job'[h].req = r
      BY <1>0, <2>4, <2>8 DEF AfterTransfer, NoJob
    <3>2. HandedBack(r)'
      <4>1. CASE FirstLeg(job[h])
        BY <1>0, <1>2, <2>1, <2>8, <4>1 DEF FirstLeg, HandedBack
      <4>2. CASE ReturnLeg(job[h])
        BY <1>0, <1>2, <2>1, <2>2, <4>2 DEF ReturnLeg, HandedBack
      <4> QED
        BY <2>6, <4>1, <4>2
    <3>3. ApprovalOK(job[h])' /\ ~At(h, "claim_write")'
      BY <2>7, <3>1, <3>2 DEF ApprovalOK, TransferSteps, At
    <3> QED
      BY <2>5, <3>3, StepKeepsRInv
  <2>9. CASE job[h].back # None
    <3>1. /\ job'[h].pc = "transfer_lock" /\ job'[h].req = r /\ job'[h].shift = job[h].back
          /\ job'[h].from = q /\ job'[h].to = p /\ job'[h].back = None
      BY <1>0, <2>4, <2>9, TransferJobFields DEF AfterTransfer
    <3>2. FirstLeg(job[h])
      BY <2>6, <2>9 DEF ReturnLeg
    <3>3. ReturnLeg(job[h])'
      BY <1>0, <1>2, <2>7, <3>1, <3>2 DEF FirstLeg, ReturnLeg
    <3>4. ApprovalOK(job[h])' /\ ~At(h, "claim_write")'
      BY <3>1, <3>3 DEF ApprovalOK, TransferSteps, At
    <3> QED
      BY <2>5, <3>4, StepKeepsRInv
  <2> QED
    BY <2>8, <2>9
<1> QED
  BY <1>1, <1>2 DEF TransferWrite

-----------------------------------------------------------------------------
(* The theorems *)

LEMMA HandlerKeepsRInv ==
  ASSUME IInv, IInv', RInv, NEW h \in Procs, HandlerStep(h) \/ Fault(h) \/ StalledJob(h)
  PROVE  RInv'
<1>1. CASE AssignmentStep(h)
  BY <1>1, AssignStepsAside, UnassignStepsAside, ShiftStepsAside, AsideKeepsRInv,
     CancelAllKeepsRInv, RemoveDeleteKeepsRInv
     DEF AssignmentStep
<1>2. CASE \/ AcceptWrite(h) \/ DeclineWrite(h) \/ CancelWrite(h)
           \/ RejectWrite(h) \/ ExpireWrite(h) \/ ApproveWrite(h)
  BY <1>2, StatusStepKeepsRInv
     DEF AcceptWrite, DeclineWrite, CancelWrite, RejectWrite, ExpireWrite, ApproveWrite,
         AnswerSteps, ActiveStatuses, ResolvedStatuses
<1>3. CASE SwapStep(h)
  BY <1>2, <1>3, SwapCreateKeepsRInv, DropCreateKeepsRInv, QueueStepsAside, AsideKeepsRInv,
     ClaimWriteKeepsRInv, TransferReadsKeepRInv, TransferWriteKeepsRInv
     DEF SwapStep
<1>4. CASE Fault(h) \/ StalledJob(h)
  BY <1>4, RefuseAside, QueueStepsAside, AsideKeepsRInv DEF Fault
<1> QED
  BY <1>1, <1>3, <1>4 DEF HandlerStep

LEMMA CallKeepsRInv ==
  ASSUME IInv, IInv', RInv, NEW h \in Procs, AssignmentCall(h) \/ SwapCall(h)
  PROVE  RInv'
<1>1. CASE AssignmentCall(h)
  BY <1>1, AssignmentCallAside, AsideKeepsRInv
<1>2. CASE SwapCall(h)
  <2>1. PICK r \in Requests :
          \/ \E p, q \in Staff, s \in Shifts, b \in Shifts \cup {None} :
                SwapStart(h, r, p, s, q, b)
          \/ \E p \in Staff, s \in Shifts : DropStart(h, r, p, s)
          \/ AcceptStart(h, r) \/ DeclineStart(h, r) \/ CancelStart(h, r)
          \/ ApproveStart(h, r) \/ RejectStart(h, r)
          \/ \E q \in Staff : ClaimStart(h, r, q)
    BY <1>2, Zenon DEF SwapCall
  <2>2. CASE ApproveStart(h, r)
    BY <2>2, ApproveStartKeepsRInv
  <2>3. CASE \E q \in Staff : ClaimStart(h, r, q)
    BY <2>3, ClaimStartKeepsRInv
  <2>4. CASE Aside(h)
    BY <2>4, AsideKeepsRInv
  <2> QED
    BY <2>1, <2>2, <2>3, <2>4, AnswerStartAside
<1> QED
  BY <1>1, <1>2

LEMMA NextKeepsRInv == IInv /\ IInv' /\ RInv /\ [Next]_vars => RInv'
<1> SUFFICES ASSUME IInv, IInv', RInv, [Next]_vars PROVE RInv'
  OBVIOUS
<1>1. ASSUME NEW h \in Procs, HandlerStep(h) \/ Fault(h) \/ StalledJob(h) PROVE RInv'
  BY <1>1, HandlerKeepsRInv
<1>2. ASSUME NEW h \in Handlers, AssignmentCall(h) \/ SwapCall(h) PROVE RInv'
  BY <1>2, CallKeepsRInv DEF Procs
<1>3. ASSUME NEW r \in Requests, ExpireStart(r) PROVE RInv'
  BY <1>3, ExpireStartAside, AsideKeepsRInv DEF Procs
<1>4. CASE Tick \/ (\E p \in Staff : Requalify(p)) \/ UNCHANGED vars
  <2>1. UNCHANGED <<request, moved, assignment, job>>
    BY <1>4 DEF Tick, Requalify, vars, swapVars, rosterVars
  <2> QED
    BY <2>1 DEF RInv, DropsAreGifts, ReturnsAreOwned, ClaimsAreOfDrops, NoDanglingRequest,
                ApprovalsOK, ApprovalOK, FirstLeg, ReturnLeg, HandedOver, HandedBack,
                ApprovedMeansMoved, At
<1> QED
  BY <1>1, <1>2, <1>3, <1>4 DEF Next

LEMMA InitRInv == Init => RInv
<1> SUFFICES ASSUME Init PROVE RInv
  OBVIOUS
<1>1. /\ \A r \in Requests : request[r] = NoRequest
      /\ \A h \in Procs : job[h].pc = "idle"
  BY NoJobIsIdle DEF Init
<1> QED
  BY <1>1 DEF RInv, NoRequest, DropsAreGifts, ReturnsAreOwned, ClaimsAreOfDrops,
              NoDanglingRequest, ApprovalsOK, ApprovalOK, ApprovedMeansMoved, TransferSteps, At

LEMMA RequestInvariant == Spec => []RInv
<1>1. Spec => []IInv
  BY InvariantHolds
<1>2. Init => RInv
  BY InitRInv
<1>3. IInv /\ IInv' /\ RInv /\ [Next]_vars => RInv'
  BY NextKeepsRInv
<1> QED
  BY <1>1, <1>2, <1>3, PTL DEF Spec

\* No request outlives the assignments it names, whatever calls overlap with the deletion
\* of a shift and whoever dies: the foreign keys of the swap requests suffice.
THEOREM NoRequestDangles == Spec => []NoDanglingRequest
<1>1. RInv => NoDanglingRequest
  BY DEF RInv
<1> QED
  BY <1>1, RequestInvariant, PTL

\* A request that reads APPROVED has had its transfers committed, both of them when it
\* still names a return shift: managerApprove resolves last, and what it read of the
\* request cannot have changed in a way that matters.
THEOREM ApprovalIsTrue == Spec => []ApprovedMeansMoved
<1>1. RInv => ApprovedMeansMoved
  BY DEF RInv
<1> QED
  BY <1>1, RequestInvariant, PTL
=============================================================================
