---------------------------- MODULE InTurnProofs ----------------------------
(***************************************************************************)
(* What holds of swap requests as long as calls do not overlap: resolved  *)
(* requests stay resolved, an assignment is offered once, and nobody has  *)
(* more open requests than the rules allow.  Time passes and staff        *)
(* qualify at any moment, and a call may die at any await; only a second  *)
(* call or the worker may not come in between.                            *)
(***************************************************************************)
EXTENDS RequestProofs, FiniteSetTheorems

\* At most one call is in flight.
InTurn == \A g, h \in Procs : ~Idle(g) /\ ~Idle(h) => g = h

-----------------------------------------------------------------------------
(* The inductive invariant *)

\* What the first step of a call has read of the requests, and its last step relies on.
GuardOK(j) ==
  /\ j.pc \in {"accept_write", "decline_write"} => request[j.req].status = "PENDING_TARGET"
  /\ j.pc \in {"claim_write", "expire_write"} => request[j.req].status = "PENDING"
  /\ j.pc = "cancel_write" => Active(j.req)
  /\ j.pc \in TransferSteps \cup {"reject_write", "approve_write"} =>
       request[j.req].status = "PENDING_MANAGER"
  /\ j.pc = "cancel_all" => \A r \in j.hits : Active(r)
  /\ j.pc \in RowCreations => BelowCap(j.from) /\ NoActiveRequest(j.shift, j.from)

Guarded ==
  {"accept_write", "decline_write", "claim_write", "expire_write", "cancel_write",
   "reject_write", "approve_write", "cancel_all"} \cup TransferSteps \cup RowCreations

GuardsHold == \A h \in Procs : GuardOK(job[h])

OpenIsUnclaimed ==
  \A r \in Requests : request[r].status = "PENDING" => request[r].counterparty = None

FewActive == \A p \in Staff : IsFiniteSet(ActiveOf(p))

TInv ==
  /\ GuardsHold /\ OpenIsUnclaimed /\ ExpiredWasUnclaimed
  /\ FewActive /\ CapRespected /\ OneActivePerAssignment

-----------------------------------------------------------------------------
(* What a step may do to the requests *)

Final ==
  \A r \in Requests :
     request[r].status \in ResolvedStatuses => request'[r].status = request[r].status

UnclaimedStay ==
  \A r \in Requests :
     request'[r].status \in {"PENDING", "EXPIRED"} => request'[r].counterparty = None

StaysOpen(r) ==
  Active(r)' => /\ Active(r)
                /\ request'[r].shift = request[r].shift
                /\ request'[r].initiator = request[r].initiator

NothingOpens == \A r \in Requests : StaysOpen(r)

\* p opens one request for shift s, and may.
Opens(p, s) ==
  /\ BelowCap(p) /\ NoActiveRequest(s, p)
  /\ \E x \in Requests :
       /\ request'[x].initiator = p /\ request'[x].shift = s
       /\ \A r \in Requests \ {x} : StaysOpen(r)

InOrder ==
  /\ Final /\ UnclaimedStay
  /\ NothingOpens \/ \E p \in Staff, s \in Shifts : Opens(p, s)

\* Requests that only close.
LEMMA ClosingIsSafe ==
  ASSUME FewActive, CapRespected, OneActivePerAssignment, NothingOpens
  PROVE  FewActive' /\ CapRespected' /\ OneActivePerAssignment'
<1>1. ASSUME NEW p \in Staff
      PROVE  IsFiniteSet(ActiveOf(p)') /\ Cardinality(ActiveOf(p)') =< MaxPending
  <2>1. ActiveOf(p)' \subseteq ActiveOf(p)
    BY DEF ActiveOf, NothingOpens, StaysOpen
  <2>2. IsFiniteSet(ActiveOf(p)) /\ Cardinality(ActiveOf(p)) =< MaxPending
    BY DEF FewActive, CapRespected
  <2>3. IsFiniteSet(ActiveOf(p)') /\ Cardinality(ActiveOf(p)') =< Cardinality(ActiveOf(p))
    BY <2>1, <2>2, FS_Subset
  <2> QED
    BY <2>2, <2>3, FS_CardinalityType, RulesAssumption
<1>2. OneActivePerAssignment'
  BY DEF OneActivePerAssignment, NothingOpens, StaysOpen
<1> QED
  BY <1>1, <1>2 DEF FewActive, CapRespected

\* One request opens, of somebody below the cap, for a seat not on offer.
LEMMA OpeningIsSafe ==
  ASSUME FewActive, CapRespected, OneActivePerAssignment,
         NEW p \in Staff, NEW s \in Shifts, Opens(p, s)
  PROVE  FewActive' /\ CapRespected' /\ OneActivePerAssignment'
<1>1. PICK x \in Requests : /\ request'[x].initiator = p /\ request'[x].shift = s
                            /\ \A r \in Requests \ {x} : StaysOpen(r)
  BY DEF Opens
<1>2. ASSUME NEW q \in Staff
      PROVE  IsFiniteSet(ActiveOf(q)') /\ Cardinality(ActiveOf(q)') =< MaxPending
  <2>1. IsFiniteSet(ActiveOf(q)) /\ Cardinality(ActiveOf(q)) =< MaxPending
    BY DEF FewActive, CapRespected
  <2>2. CASE q = p
    <3>1. ActiveOf(q)' \subseteq ActiveOf(q) \cup {x}
      BY <1>1 DEF ActiveOf, StaysOpen
    <3>2. IsFiniteSet(ActiveOf(q) \cup {x})
          /\ Cardinality(ActiveOf(q) \cup {x}) =< Cardinality(ActiveOf(q)) + 1
      <4>1. Cardinality(ActiveOf(q)) \in Nat
        BY <2>1, FS_CardinalityType
      <4>2. /\ IsFiniteSet(ActiveOf(q) \cup {x})
            /\ Cardinality(ActiveOf(q) \cup {x}) =
                 IF x \in ActiveOf(q) THEN Cardinality(ActiveOf(q))
                                      ELSE Cardinality(ActiveOf(q)) + 1
        BY <2>1, FS_AddElement
      <4> QED
        BY <4>1, <4>2
    <3>3. /\ IsFiniteSet(ActiveOf(q)')
          /\ Cardinality(ActiveOf(q)') =< Cardinality(ActiveOf(q) \cup {x})
      BY <3>1, <3>2, FS_Subset
    <3>4. Cardinality(ActiveOf(q)) < MaxPending
      BY <2>2 DEF Opens, BelowCap
    <3> QED
      BY <2>1, <3>2, <3>3, <3>4, FS_CardinalityType, RulesAssumption
  <2>3. CASE q # p
    <3>1. ActiveOf(q)' \subseteq ActiveOf(q)
      BY <1>1, <2>3 DEF ActiveOf, StaysOpen
    <3>2. IsFiniteSet(ActiveOf(q)') /\ Cardinality(ActiveOf(q)') =< Cardinality(ActiveOf(q))
      BY <2>1, <3>1, FS_Subset
    <3> QED
      BY <2>1, <3>2, FS_CardinalityType, RulesAssumption
  <2> QED
    BY <2>2, <2>3
<1>3. OneActivePerAssignment'
  <2> SUFFICES ASSUME NEW r1 \in Requests, NEW r2 \in Requests, r1 # r2,
                      Active(r1)', Active(r2)', request'[r1].shift = request'[r2].shift,
                      request'[r1].initiator = request'[r2].initiator
               PROVE  FALSE
    BY DEF OneActivePerAssignment
  <2>1. CASE r1 # x /\ r2 # x
    BY <1>1, <2>1 DEF OneActivePerAssignment, StaysOpen
  <2>2. CASE r1 = x
    BY <1>1, <2>2 DEF Opens, NoActiveRequest, StaysOpen
  <2>3. CASE r2 = x
    BY <1>1, <2>3 DEF Opens, NoActiveRequest, StaysOpen
  <2> QED
    BY <2>1, <2>2, <2>3
<1> QED
  BY <1>2, <1>3 DEF FewActive, CapRespected

\* h writes requests while nobody else is in flight.
LEMMA WriteInTurn ==
  ASSUME IInv, InTurn, TInv, NEW h \in Procs, ~Idle(h), OthersStay(h), GuardOK(job[h])', InOrder
  PROVE  TInv' /\ Final
<1>1. GuardsHold'
  <2> SUFFICES ASSUME NEW g \in Procs, g # h PROVE GuardOK(job[g])'
    BY DEF GuardsHold
  <2>1. job'[g].pc = "idle"
    BY DEF InTurn, Idle, OthersStay
  <2> QED
    BY <2>1 DEF GuardOK, TransferSteps, RowCreations
<1>2. OpenIsUnclaimed' /\ ExpiredWasUnclaimed'
  BY DEF InOrder, UnclaimedStay, OpenIsUnclaimed, ExpiredWasUnclaimed
<1>3. FewActive' /\ CapRespected' /\ OneActivePerAssignment'
  BY ClosingIsSafe, OpeningIsSafe DEF InOrder, TInv
<1> QED
  BY <1>1, <1>2, <1>3 DEF TInv, InOrder

\* h leaves the requests alone.
LEMMA ReadInTurn ==
  ASSUME IInv, TInv, NEW h \in Procs, OthersStay(h), UNCHANGED request, GuardOK(job[h])'
  PROVE  TInv' /\ Final
<1>1. GuardsHold'
  <2> SUFFICES ASSUME NEW g \in Procs, g # h PROVE GuardOK(job[g])'
    BY DEF GuardsHold
  <2>1. job'[g] = job[g] /\ GuardOK(job[g])
    BY DEF TInv, GuardsHold, OthersStay
  <2> QED
    BY <2>1 DEF GuardOK, Active, BelowCap, ActiveOf, NoActiveRequest
<1>2. /\ OpenIsUnclaimed' /\ ExpiredWasUnclaimed'
      /\ FewActive' /\ CapRespected' /\ OneActivePerAssignment'
  BY DEF TInv, OpenIsUnclaimed, ExpiredWasUnclaimed, FewActive, CapRespected, ActiveOf, Active,
         OneActivePerAssignment
<1> QED
  BY <1>1, <1>2 DEF TInv, Final

-----------------------------------------------------------------------------
(* Steps that leave the requests alone *)

\* h goes on to a step that relies on no request.
Unguarded(h) == job'[h].pc \notin Guarded

LEMMA UnguardedInTurn ==
  ASSUME IInv, TInv, NEW h \in Procs, OthersStay(h), UNCHANGED request, Unguarded(h)
  PROVE  TInv' /\ Final
<1>1. GuardOK(job[h])'
  BY DEF Unguarded, Guarded, GuardOK
<1> QED
  BY <1>1, ReadInTurn

LEMMA FinishIsUnguarded ==
  ASSUME IInv, NEW h \in Procs, Finish(h)
  PROVE  Unguarded(h) /\ OthersStay(h)
BY NoJobIsIdle
   DEF Finish, Continue, Unguarded, Guarded, TransferSteps, RowCreations, OthersStay, IInv, TypeOK

LEMMA AdvanceIsOneStep ==
  ASSUME IInv, NEW h \in Procs, NEW pc \in Steps, Advance(h, pc)
  PROVE  /\ OthersStay(h) /\ job'[h].pc = pc
         /\ job'[h].req = job[h].req /\ job'[h].shift = job[h].shift
         /\ job'[h].from = job[h].from
BY DEF Advance, Continue, OthersStay, IInv, TypeOK, Job

LEMMA FinishInTurn ==
  ASSUME IInv, TInv, NEW h \in Procs, Finish(h), UNCHANGED request
  PROVE  TInv' /\ Final
BY FinishIsUnguarded, UnguardedInTurn

LEMMA RefuseInTurn ==
  ASSUME IInv, TInv, NEW h \in Procs, Refuse(h)
  PROVE  TInv' /\ Final
BY FinishInTurn DEF Refuse, swapVars

LEMMA AdvanceInTurn ==
  ASSUME IInv, TInv, NEW h \in Procs, NEW pc \in Steps \ Guarded, Advance(h, pc),
         UNCHANGED request
  PROVE  TInv' /\ Final
BY AdvanceIsOneStep, UnguardedInTurn DEF Unguarded

LEMMA AssignStepsInTurn ==
  ASSUME IInv, TInv, NEW h \in Procs,
         AssignLock(h) \/ AssignCount(h) \/ AssignCheck(h) \/ AssignWrite(h)
  PROVE  TInv' /\ Final
<1>1. CASE Refuse(h)
  BY <1>1, RefuseInTurn
<1>2. CASE AssignWrite(h) /\ ~Refuse(h)
  BY <1>2, FinishInTurn DEF AssignWrite, swapVars
<1>3. ASSUME NEW pc \in {"assign_count", "assign_check", "assign_write"}, Advance(h, pc),
             UNCHANGED request
      PROVE  TInv' /\ Final
  BY <1>3, AdvanceInTurn DEF Steps, LockedSteps, Guarded, TransferSteps, RowCreations
<1> QED
  BY <1>1, <1>2, <1>3
     DEF AssignLock, TakeLockAndGoTo, AssignCount, AssignCheck, OnlyJob, swapVars

LEMMA ShiftStepsInTurn ==
  ASSUME IInv, TInv, NEW h \in Procs,
         \/ UnassignWrite(h) \/ CreateWrite(h) \/ EditWrite(h) \/ EditRows(h)
         \/ RemoveCount(h) \/ PublishWrite(h) \/ UnpublishWrite(h)
  PROVE  TInv' /\ Final
<1>1. CASE Refuse(h)
  BY <1>1, RefuseInTurn
<1>2. CASE CreateWrite(h) \/ PublishWrite(h) \/ UnpublishWrite(h)
  BY <1>2, FinishInTurn DEF CreateWrite, PublishWrite, UnpublishWrite, SetPublished, swapVars
<1>3. CASE UnassignWrite(h) /\ ~Refuse(h)
  <2>1. /\ Continue(h, [NoJob EXCEPT !.pc = "cancel_find", !.shift = job[h].shift,
                                     !.rows = {job[h].to}])
        /\ UNCHANGED request
    BY <1>3 DEF UnassignWrite, swapVars
  <2>2. OthersStay(h) /\ Unguarded(h)
    BY <2>1 DEF Continue, NoJob, OthersStay, Unguarded, Guarded, TransferSteps, RowCreations,
                IInv, TypeOK
  <2> QED
    BY <2>1, <2>2, UnguardedInTurn
<1>4. CASE EditWrite(h) /\ ~Refuse(h)
  <2>1. /\ Continue(h, [NoJob EXCEPT !.pc = "edit_rows", !.shift = job[h].shift])
        /\ UNCHANGED request
    BY <1>4 DEF EditWrite, swapVars
  <2>2. OthersStay(h) /\ Unguarded(h)
    BY <2>1 DEF Continue, NoJob, OthersStay, Unguarded, Guarded, TransferSteps, RowCreations,
                IInv, TypeOK
  <2> QED
    BY <2>1, <2>2, UnguardedInTurn
<1>5. CASE EditRows(h)
  <2>1. PICK rows : \/ Finish(h)
                    \/ Continue(h, [job[h] EXCEPT !.pc = "cancel_find", !.rows = rows])
    BY <1>5 DEF EditRows, Finish
  <2>2. UNCHANGED request
    BY <1>5 DEF EditRows, OnlyJob, swapVars
  <2>3. ASSUME Continue(h, [job[h] EXCEPT !.pc = "cancel_find", !.rows = rows])
        PROVE  OthersStay(h) /\ Unguarded(h)
    BY <2>3 DEF Continue, OthersStay, Unguarded, Guarded, TransferSteps, RowCreations,
                IInv, TypeOK, Job
  <2> QED
    BY <2>1, <2>2, <2>3, FinishInTurn, UnguardedInTurn
<1>6. CASE RemoveCount(h) /\ ~Refuse(h)
  BY <1>6, AdvanceInTurn
     DEF RemoveCount, OnlyJob, swapVars, Steps, Guarded, TransferSteps, RowCreations
<1> QED
  BY <1>1, <1>2, <1>3, <1>4, <1>5, <1>6

LEMMA QueueStepsInTurn ==
  ASSUME IInv, TInv, NEW h \in Procs, DropEnqueue(h) \/ CancelJob(h) \/ StalledJob(h)
  PROVE  TInv' /\ Final
BY FinishInTurn DEF DropEnqueue, CancelJob, StalledJob, swapVars

LEMMA AssignmentCallUnguarded ==
  ASSUME IInv, NEW h \in Procs, AssignmentCall(h)
  PROVE  Unguarded(h)
<1> USE DEF Continue, NoJob, Unguarded, Guarded, TransferSteps, RowCreations, IInv, TypeOK
<1>1. ASSUME NEW s \in Shifts, NEW p \in Staff, AssignStart(h, s, p) PROVE Unguarded(h)
  BY <1>1 DEF AssignStart
<1>2. ASSUME NEW s \in Shifts, NEW p \in Staff, UnassignStart(h, s, p) PROVE Unguarded(h)
  BY <1>2 DEF UnassignStart
<1>3. ASSUME NEW s \in Shifts, NEW w \in Windows, NEW n \in Needs, CreateStart(h, s, w, n)
      PROVE  Unguarded(h)
  BY <1>3 DEF CreateStart
<1>4. ASSUME NEW s \in Shifts, NEW w \in Windows, NEW n \in Needs, EditStart(h, s, w, n)
      PROVE  Unguarded(h)
  BY <1>4 DEF EditStart, BeginEdit
<1>5. ASSUME NEW s \in Shifts, RemoveStart(h, s) PROVE Unguarded(h)
  BY <1>5 DEF RemoveStart
<1>6. ASSUME PublishStart(h) \/ UnpublishStart(h) PROVE Unguarded(h)
  BY <1>6 DEF PublishStart, UnpublishStart
<1> QED
  BY <1>1, <1>2, <1>3, <1>4, <1>5, <1>6 DEF AssignmentCall

LEMMA AssignmentCallInTurn ==
  ASSUME IInv, TInv, NEW h \in Procs, AssignmentCall(h)
  PROVE  TInv' /\ Final
<1>1. Aside(h)
  BY AssignmentCallAside
<1>2. Unguarded(h)
  BY AssignmentCallUnguarded
<1> QED
  BY <1>1, <1>2, UnguardedInTurn DEF Aside

-----------------------------------------------------------------------------
(* Calls that read the requests they are going to write *)

LEMMA AnswerStartInTurn ==
  ASSUME IInv, TInv, NEW h \in Procs, NEW r \in Requests,
         AcceptStart(h, r) \/ DeclineStart(h, r) \/ CancelStart(h, r) \/ RejectStart(h, r)
  PROVE  TInv' /\ Final
<1>1. PICK pc \in {"accept_write", "decline_write", "cancel_write", "reject_write"} :
         /\ Begin(h, r, pc) /\ OnlyJob
         /\ pc \in {"accept_write", "decline_write"} => request[r].status = "PENDING_TARGET"
         /\ pc = "cancel_write" => Active(r)
         /\ pc = "reject_write" => request[r].status = "PENDING_MANAGER"
  BY DEF AcceptStart, DeclineStart, CancelStart, RejectStart, AwaitsTarget
<1>2. OthersStay(h) /\ job'[h].pc = pc /\ job'[h].req = r
  BY <1>1 DEF Begin, Continue, NoJob, OthersStay, IInv, TypeOK
<1>3. UNCHANGED request
  BY <1>1 DEF OnlyJob, swapVars
<1>4. GuardOK(job[h])'
  BY <1>1, <1>2, <1>3 DEF GuardOK, Active, TransferSteps, RowCreations
<1> QED
  BY <1>2, <1>3, <1>4, ReadInTurn

LEMMA ClaimStartInTurn ==
  ASSUME IInv, TInv, NEW h \in Procs, NEW r \in Requests, NEW q \in Staff, ClaimStart(h, r, q)
  PROVE  TInv' /\ Final
<1>1. OthersStay(h) /\ job'[h].pc = "claim_write" /\ job'[h].req = r
  BY DEF ClaimStart, Continue, NoJob, OthersStay, IInv, TypeOK
<1>2. UNCHANGED request /\ request[r].status = "PENDING"
  BY DEF ClaimStart, OnlyJob, swapVars
<1>3. GuardOK(job[h])'
  BY <1>1, <1>2 DEF GuardOK, TransferSteps, RowCreations
<1> QED
  BY <1>1, <1>2, <1>3, ReadInTurn

LEMMA CreationStartInTurn ==
  ASSUME IInv, TInv, NEW h \in Procs, NEW r \in Requests,
         \/ \E p, q \in Staff, s \in Shifts, b \in Shifts \cup {None} : SwapStart(h, r, p, s, q, b)
         \/ \E p \in Staff, s \in Shifts : DropStart(h, r, p, s)
  PROVE  TInv' /\ Final
<1>1. ASSUME NEW pc \in RowCreations, NEW p \in Staff, NEW s \in Shifts,
             OthersStay(h), job'[h].pc = pc, job'[h].from = p, job'[h].shift = s,
             BelowCap(p), NoActiveRequest(s, p), UNCHANGED request
      PROVE  TInv' /\ Final
  <2>1. GuardOK(job[h])'
    BY <1>1 DEF GuardOK, TransferSteps, RowCreations, BelowCap, ActiveOf, Active, NoActiveRequest
  <2> QED
    BY <1>1, <2>1, ReadInTurn
<1>2. ASSUME NEW p \in Staff, NEW q \in Staff, NEW s \in Shifts, NEW b \in Shifts \cup {None},
             SwapStart(h, r, p, s, q, b)
      PROVE  TInv' /\ Final
  <2>1. OthersStay(h) /\ job'[h].pc = "swap_create" /\ job'[h].from = p /\ job'[h].shift = s
    BY <1>2 DEF SwapStart, Continue, NoJob, OthersStay, IInv, TypeOK
  <2>2. BelowCap(p) /\ NoActiveRequest(s, p) /\ UNCHANGED request
    BY <1>2 DEF SwapStart, MayRequest, OnlyJob, swapVars
  <2> QED
    BY <1>1, <2>1, <2>2 DEF RowCreations
<1>3. ASSUME NEW p \in Staff, NEW s \in Shifts, DropStart(h, r, p, s)
      PROVE  TInv' /\ Final
  <2>1. OthersStay(h) /\ job'[h].pc = "drop_create" /\ job'[h].from = p /\ job'[h].shift = s
    BY <1>3 DEF DropStart, Continue, NoJob, OthersStay, IInv, TypeOK
  <2>2. BelowCap(p) /\ NoActiveRequest(s, p) /\ UNCHANGED request
    BY <1>3 DEF DropStart, MayRequest, OnlyJob, swapVars
  <2> QED
    BY <1>1, <2>1, <2>2 DEF RowCreations
<1> QED
  BY <1>2, <1>3

LEMMA ApproveStartInTurn ==
  ASSUME IInv, TInv, NEW h \in Procs, NEW r \in Requests, ApproveStart(h, r)
  PROVE  TInv' /\ Final
<1>1. OthersStay(h) /\ job'[h].pc = "transfer_lock" /\ job'[h].req = r
  BY TransferJobFields DEF ApproveStart, BeginApproval, Continue, OthersStay, IInv, TypeOK
<1>2. UNCHANGED request /\ request[r].status = "PENDING_MANAGER"
  BY DEF ApproveStart, OnlyJob, swapVars
<1>3. GuardOK(job[h])'
  BY <1>1, <1>2 DEF GuardOK, TransferSteps, RowCreations
<1> QED
  BY <1>1, <1>2, <1>3, ReadInTurn

LEMMA SwapCallInTurn ==
  ASSUME IInv, TInv, NEW h \in Procs, SwapCall(h)
  PROVE  TInv' /\ Final
<1>1. PICK r \in Requests :
        \/ \E p, q \in Staff, s \in Shifts, b \in Shifts \cup {None} : SwapStart(h, r, p, s, q, b)
        \/ \E p \in Staff, s \in Shifts : DropStart(h, r, p, s)
        \/ AcceptStart(h, r) \/ DeclineStart(h, r) \/ CancelStart(h, r)
        \/ ApproveStart(h, r) \/ RejectStart(h, r)
        \/ \E q \in Staff : ClaimStart(h, r, q)
  BY Zenon DEF SwapCall
<1> QED
  BY <1>1, AnswerStartInTurn, ClaimStartInTurn, CreationStartInTurn, ApproveStartInTurn

\* The automatic cancellation finds the requests that are active.
LEMMA CancelFindInTurn ==
  ASSUME IInv, TInv, NEW h \in Procs, CancelFind(h)
  PROVE  TInv' /\ Final
<1>1. PICK hits : /\ hits = PendingFor(job[h].shift, job[h].rows)
                  /\ \/ Finish(h)
                     \/ Continue(h, [job[h] EXCEPT !.pc = "cancel_all", !.hits = hits])
                  /\ UNCHANGED request
  BY DEF CancelFind, Finish, OnlyJob, swapVars
<1>2. CASE Finish(h)
  BY <1>1, <1>2, FinishInTurn
<1>3. CASE Continue(h, [job[h] EXCEPT !.pc = "cancel_all", !.hits = hits])
  <2>1. OthersStay(h) /\ job'[h].pc = "cancel_all" /\ job'[h].hits = hits
    BY <1>3 DEF Continue, OthersStay, IInv, TypeOK, Job
  <2>2. \A r \in hits : Active(r)
    BY <1>1 DEF PendingFor
  <2>3. GuardOK(job[h])'
    BY <1>1, <2>1, <2>2 DEF GuardOK, Active, TransferSteps, RowCreations
  <2> QED
    BY <1>1, <2>1, <2>3, ReadInTurn
<1> QED
  BY <1>1, <1>2, <1>3

\* The worker takes a drop that is still pending.
LEMMA ExpireStartInTurn ==
  ASSUME IInv, TInv, NEW r \in Requests, ExpireStart(r)
  PROVE  TInv' /\ Final
<1>1. Worker \in Procs /\ UNCHANGED request
  BY DEF Procs, ExpireStart, swapVars
<1>2. CASE request[r].status = "PENDING" /\ Begin(Worker, r, "expire_write")
  <2>1. OthersStay(Worker) /\ job'[Worker].pc = "expire_write" /\ job'[Worker].req = r
    BY <1>1, <1>2 DEF Begin, Continue, NoJob, OthersStay, IInv, TypeOK
  <2>2. GuardOK(job[Worker])'
    BY <1>1, <1>2, <2>1 DEF GuardOK, TransferSteps, RowCreations
  <2> QED
    BY <1>1, <2>1, <2>2, ReadInTurn
<1>3. CASE UNCHANGED job
  BY <1>1, <1>3, UnguardedInTurn
     DEF ExpireStart, Idle, OthersStay, Unguarded, Guarded, TransferSteps, RowCreations
<1> QED
  BY <1>2, <1>3 DEF ExpireStart

LEMMA TransferReadsInTurn ==
  ASSUME IInv, TInv, NEW h \in Procs, TransferLock(h) \/ TransferCheck(h)
  PROVE  TInv' /\ Final
<1>1. CASE Refuse(h)
  BY <1>1, RefuseInTurn
<1>2. ASSUME NEW pc \in {"transfer_check", "transfer_write"}, Advance(h, pc), UNCHANGED request,
             job[h].pc \in TransferSteps
      PROVE  TInv' /\ Final
  <2>1. OthersStay(h) /\ job'[h].pc = pc /\ job'[h].req = job[h].req
    BY <1>2, AdvanceIsOneStep DEF Steps, LockedSteps
  <2>2. GuardOK(job[h])'
    BY <1>2, <2>1 DEF TInv, GuardsHold, GuardOK, TransferSteps, RowCreations
  <2> QED
    BY <1>2, <2>1, <2>2, ReadInTurn
<1> QED
  BY <1>1, <1>2
     DEF TransferLock, TakeLockAndGoTo, TransferCheck, At, OnlyJob, swapVars, TransferSteps

\* Between the two transfers of an exchange, and before the resolution, the request is
\* still the manager's.
LEMMA TransferWriteInTurn ==
  ASSUME IInv, TInv, NEW h \in Procs, TransferWrite(h)
  PROVE  TInv' /\ Final
<1>1. CASE Refuse(h)
  BY <1>1, RefuseInTurn
<1>2. CASE Continue(h, AfterTransfer(h)) /\ UNCHANGED request
  <2>1. OthersStay(h) /\ job'[h] = AfterTransfer(h)
    BY <1>2 DEF Continue, OthersStay, IInv, TypeOK
  <2>2. job'[h].pc \in {"transfer_lock", "approve_write"} /\ job'[h].req = job[h].req
    BY <2>1, TransferJobFields DEF AfterTransfer, NoJob
  <2>3. request[job[h].req].status = "PENDING_MANAGER"
    BY DEF TransferWrite, At, TransferSteps, TInv, GuardsHold, GuardOK
  <2>4. GuardOK(job[h])'
    BY <1>2, <2>2, <2>3 DEF GuardOK, TransferSteps, RowCreations
  <2> QED
    BY <1>2, <2>1, <2>4, ReadInTurn
<1> QED
  BY <1>1, <1>2 DEF TransferWrite

-----------------------------------------------------------------------------
(* Steps that write requests *)

\* Requests that a step leaves as they are.
LEMMA SameRowStays ==
  ASSUME TInv, NEW r \in Requests, request'[r] = request[r]
  PROVE  /\ request[r].status \in ResolvedStatuses => request'[r].status = request[r].status
         /\ request'[r].status \in {"PENDING", "EXPIRED"} => request'[r].counterparty = None
         /\ StaysOpen(r)
BY DEF TInv, OpenIsUnclaimed, ExpiredWasUnclaimed, StaysOpen, Active

LEMMA CreationInTurn ==
  ASSUME IInv, InTurn, TInv, NEW h \in Procs, job[h].pc \in RowCreations,
         NEW q \in SwapRequest, q.status \in {"PENDING", "PENDING_TARGET"}, q.initiator = job[h].from,
         q.shift = job[h].shift, q.status = "PENDING" => q.counterparty = None,
         request' = [request EXCEPT ![job[h].req] = q], OthersStay(h), Unguarded(h)
  PROVE  TInv' /\ Final
<1>1. /\ job[h].req \in Requests /\ request[job[h].req].status = "NONE"
      /\ job[h].from \in Staff /\ job[h].shift \in Shifts
      /\ BelowCap(job[h].from) /\ NoActiveRequest(job[h].shift, job[h].from)
  BY DEF IInv, JobsOK, JobOK, RowCreations, CreationSteps, RequestsDiffer, TInv, GuardsHold,
         GuardOK
<1>2. /\ request'[job[h].req] = q
      /\ \A r \in Requests \ {job[h].req} : request'[r] = request[r]
  BY <1>1 DEF IInv, TypeOK
<1>3. Opens(job[h].from, job[h].shift)
  BY <1>1, <1>2, SameRowStays DEF Opens
<1>4. Final /\ UnclaimedStay
  BY <1>1, <1>2, SameRowStays DEF Final, UnclaimedStay, ResolvedStatuses
<1>5. InOrder
  BY <1>1, <1>3, <1>4 DEF InOrder
<1>6. GuardOK(job[h])'
  BY DEF Unguarded, Guarded, GuardOK
<1>7. ~Idle(h)
  BY DEF Idle, RowCreations
<1> QED
  BY <1>5, <1>6, <1>7, WriteInTurn

LEMMA SwapCreateInTurn ==
  ASSUME IInv, InTurn, TInv, NEW h \in Procs, SwapCreate(h)
  PROVE  TInv' /\ Final
<1> DEFINE q == [type |-> "SWAP", status |-> "PENDING_TARGET", initiator |-> job[h].from,
                 shift |-> job[h].shift, counterparty |-> job[h].to, back |-> job[h].back,
                 expiresAt |-> 0]
<1>1. CASE Refuse(h)
  BY <1>1, RefuseInTurn
<1>2. CASE request' = [request EXCEPT ![job[h].req] = q] /\ Finish(h)
  <2>1. OthersStay(h) /\ Unguarded(h)
    BY <1>2, FinishIsUnguarded
  <2>2. /\ q.status = "PENDING_TARGET" /\ q.initiator = job[h].from /\ q.shift = job[h].shift
    OBVIOUS
  <2>3. job[h].pc \in RowCreations
    BY DEF SwapCreate, At, RowCreations
  <2>4. /\ job[h].from \in Staff /\ job[h].to \in Staff /\ job[h].shift \in Shifts
        /\ job[h].back \in Shifts \cup {None}
    BY DEF SwapCreate, At, IInv, TypeOK, JobsOK, JobOK, Job
  <2>5. q \in SwapRequest
    BY <2>4 DEF SwapRequest, ActiveStatuses
  <2> HIDE DEF q
  <2> QED
    BY <1>2, <2>1, <2>2, <2>3, <2>5, CreationInTurn
<1> QED
  BY <1>1, <1>2 DEF SwapCreate

LEMMA DropCreateInTurn ==
  ASSUME IInv, InTurn, TInv, NEW h \in Procs, DropCreate(h)
  PROVE  TInv' /\ Final
<1> DEFINE q == [type |-> "DROP", status |-> "PENDING", initiator |-> job[h].from,
                 shift |-> job[h].shift, counterparty |-> None, back |-> None,
                 expiresAt |-> job[h].expiresAt]
<1>1. CASE Refuse(h)
  BY <1>1, RefuseInTurn
<1>2. CASE request' = [request EXCEPT ![job[h].req] = q] /\ Advance(h, "drop_enqueue")
  <2>1. OthersStay(h) /\ Unguarded(h)
    BY <1>2, AdvanceIsOneStep DEF Steps, Unguarded, Guarded, TransferSteps, RowCreations
  <2>2. /\ q.status = "PENDING" /\ q.initiator = job[h].from /\ q.shift = job[h].shift
        /\ q.counterparty = None
    OBVIOUS
  <2>3. job[h].pc \in RowCreations
    BY DEF DropCreate, DropCreateThen, At, RowCreations
  <2>4. job[h].from \in Staff /\ job[h].shift \in Shifts /\ job[h].expiresAt \in Int
    BY DEF DropCreate, DropCreateThen, At, IInv, TypeOK, JobsOK, JobOK, Job
  <2>5. q \in SwapRequest
    BY <2>4 DEF SwapRequest, ActiveStatuses
  <2> HIDE DEF q
  <2> QED
    BY <1>2, <2>1, <2>2, <2>3, <2>5, CreationInTurn
<1> QED
  BY <1>1, <1>2 DEF DropCreate, DropCreateThen

\* One active request of h gets another status.
LEMMA StatusStepInTurn ==
  ASSUME IInv, InTurn, TInv, NEW h \in Procs, NEW at \in AnswerSteps,
         NEW status \in {"PENDING_MANAGER"} \cup ResolvedStatuses,
         status = "EXPIRED" => at = "expire_write",
         at \in {"accept_write", "decline_write", "expire_write", "cancel_write",
                 "reject_write", "approve_write"},
         NEW then \in {"idle", "cancel_job"}, StatusStep(h, at, status, then)
  PROVE  TInv' /\ Final
<1> DEFINE r == job[h].req
<1>1. r \in Requests /\ job[h] \in Job /\ job[h].pc = at
  BY DEF StatusStep, At, IInv, TypeOK, JobsOK, JobOK
<1>2. /\ request'[r].status = status /\ request'[r].counterparty = request[r].counterparty
      /\ request'[r].initiator = request[r].initiator /\ request'[r].shift = request[r].shift
      /\ \A x \in Requests \ {r} : request'[x] = request[x]
  BY <1>1 DEF StatusStep, SetStatus, IInv, TypeOK, SwapRequest
<1>3. /\ Active(r)
      /\ at = "expire_write" => request[r].status = "PENDING" /\ request[r].counterparty = None
  BY <1>1 DEF TInv, GuardsHold, GuardOK, Active, ActiveStatuses, OpenIsUnclaimed
<1>4. InOrder
  <2>1. Final
    BY <1>2, <1>3 DEF Final, Active, ActiveStatuses, ResolvedStatuses
  <2>2. UnclaimedStay
    <3> SUFFICES ASSUME NEW x \in Requests, request'[x].status \in {"PENDING", "EXPIRED"}
                 PROVE  request'[x].counterparty = None
      BY DEF UnclaimedStay
    <3>1. CASE x = r
      BY <1>2, <1>3, <3>1 DEF ResolvedStatuses
    <3>2. CASE x # r
      BY <1>2, <3>2, SameRowStays
    <3> QED
      BY <3>1, <3>2
  <2>3. NothingOpens
    BY <1>2, <1>3, SameRowStays DEF NothingOpens, StaysOpen
  <2> QED
    BY <2>1, <2>2, <2>3 DEF InOrder
<1>5. OthersStay(h) /\ Unguarded(h)
  <2>1. CASE Finish(h)
    BY <2>1, FinishIsUnguarded
  <2>2. CASE Advance(h, "cancel_job")
    BY <2>2, AdvanceIsOneStep DEF Steps, Unguarded, Guarded, TransferSteps, RowCreations
  <2> QED
    BY <2>1, <2>2 DEF StatusStep
<1>6. GuardOK(job[h])' /\ ~Idle(h)
  BY <1>1, <1>5 DEF Unguarded, Guarded, GuardOK, Idle
<1> QED
  BY <1>4, <1>5, <1>6, WriteInTurn

LEMMA AnswerWriteInTurn ==
  ASSUME IInv, InTurn, TInv, NEW h \in Procs,
         \/ AcceptWrite(h) \/ DeclineWrite(h) \/ CancelWrite(h)
         \/ RejectWrite(h) \/ ExpireWrite(h) \/ ApproveWrite(h)
  PROVE  TInv' /\ Final
BY StatusStepInTurn
   DEF AcceptWrite, DeclineWrite, CancelWrite, RejectWrite, ExpireWrite, ApproveWrite,
       AnswerSteps, ResolvedStatuses

LEMMA ClaimWriteInTurn ==
  ASSUME IInv, InTurn, TInv, NEW h \in Procs, ClaimWrite(h)
  PROVE  TInv' /\ Final
<1> DEFINE r == job[h].req
<1>1. /\ r \in Requests /\ request[r].status = "PENDING"
  BY DEF ClaimWrite, At, IInv, JobsOK, JobOK, AnswerSteps, TInv, GuardsHold, GuardOK
<1>2. /\ request'[r].status = "PENDING_MANAGER"
      /\ request'[r].initiator = request[r].initiator /\ request'[r].shift = request[r].shift
      /\ \A x \in Requests \ {r} : request'[x] = request[x]
  BY <1>1 DEF ClaimWrite, IInv, TypeOK, SwapRequest
<1>3. InOrder
  <2>1. Final /\ UnclaimedStay
    BY <1>1, <1>2, SameRowStays DEF Final, UnclaimedStay, ResolvedStatuses
  <2>2. NothingOpens
    BY <1>1, <1>2, SameRowStays DEF NothingOpens, StaysOpen, Active, ActiveStatuses
  <2> QED
    BY <2>1, <2>2 DEF InOrder
<1>4. OthersStay(h) /\ Unguarded(h)
  BY FinishIsUnguarded DEF ClaimWrite
<1>5. GuardOK(job[h])' /\ ~Idle(h)
  BY <1>4 DEF Unguarded, Guarded, GuardOK, Idle, ClaimWrite, At
<1> QED
  BY <1>3, <1>4, <1>5, WriteInTurn

\* What the automatic cancellation found active is still active when it is cancelled.
LEMMA CancelAllInTurn ==
  ASSUME IInv, InTurn, TInv, NEW h \in Procs, CancelAll(h)
  PROVE  TInv' /\ Final
<1>1. \A r \in job[h].hits : Active(r)
  BY DEF CancelAll, At, TInv, GuardsHold, GuardOK
<1>2. \A r \in Requests :
        /\ r \in job[h].hits => request'[r].status = "CANCELLED"
        /\ r \notin job[h].hits => request'[r] = request[r]
  BY DEF CancelAll, IInv, TypeOK, SwapRequest
<1>3. InOrder
  <2>1. Final /\ UnclaimedStay
    BY <1>1, <1>2, SameRowStays
       DEF Final, UnclaimedStay, Active, ActiveStatuses, ResolvedStatuses
  <2>2. NothingOpens
    BY <1>1, <1>2, SameRowStays DEF NothingOpens, StaysOpen, Active, ActiveStatuses
  <2> QED
    BY <2>1, <2>2 DEF InOrder
<1>4. OthersStay(h) /\ Unguarded(h)
  BY FinishIsUnguarded DEF CancelAll
<1>5. GuardOK(job[h])' /\ ~Idle(h)
  BY <1>4 DEF Unguarded, Guarded, GuardOK, Idle, CancelAll, At
<1> QED
  BY <1>3, <1>4, <1>5, WriteInTurn

LEMMA RemoveDeleteInTurn ==
  ASSUME IInv, InTurn, TInv, NEW h \in Procs, RemoveDelete(h)
  PROVE  TInv' /\ Final
<1>1. CASE Refuse(h)
  BY <1>1, RefuseInTurn
<1>2. CASE /\ request' = [r \in Requests |-> IF request[r].back = job[h].shift
                                             THEN [request[r] EXCEPT !.back = None]
                                             ELSE request[r]]
           /\ Finish(h)
  <2>1. \A r \in Requests :
          /\ request'[r].status = request[r].status
          /\ request'[r].initiator = request[r].initiator /\ request'[r].shift = request[r].shift
          /\ request'[r].counterparty = request[r].counterparty
    BY <1>2 DEF IInv, TypeOK, SwapRequest
  <2>2. InOrder
    BY <2>1 DEF InOrder, Final, UnclaimedStay, NothingOpens, StaysOpen, Active, TInv,
                OpenIsUnclaimed, ExpiredWasUnclaimed
  <2>3. OthersStay(h) /\ Unguarded(h)
    BY <1>2, FinishIsUnguarded
  <2>4. GuardOK(job[h])' /\ ~Idle(h)
    BY <2>3 DEF Unguarded, Guarded, GuardOK, Idle, RemoveDelete, At
  <2> QED
    BY <2>2, <2>3, <2>4, WriteInTurn
<1> QED
  BY <1>1, <1>2 DEF RemoveDelete

-----------------------------------------------------------------------------
(* The whole system *)

LEMMA NextInTurn == IInv /\ InTurn /\ TInv /\ [Next]_vars => TInv' /\ Final
<1> SUFFICES ASSUME IInv, InTurn, TInv, [Next]_vars PROVE TInv' /\ Final
  OBVIOUS
<1>1. ASSUME NEW h \in Procs, AssignmentStep(h) PROVE TInv' /\ Final
  BY <1>1, AssignStepsInTurn, ShiftStepsInTurn, CancelFindInTurn, CancelAllInTurn,
     RemoveDeleteInTurn
     DEF AssignmentStep
<1>2. ASSUME NEW h \in Procs, SwapStep(h) PROVE TInv' /\ Final
  BY <1>2, SwapCreateInTurn, DropCreateInTurn, QueueStepsInTurn, AnswerWriteInTurn,
     ClaimWriteInTurn, TransferReadsInTurn, TransferWriteInTurn
     DEF SwapStep
<1>3. ASSUME NEW h \in Procs, Fault(h) \/ StalledJob(h) PROVE TInv' /\ Final
  BY <1>3, RefuseInTurn, QueueStepsInTurn DEF Fault
<1>4. ASSUME NEW h \in Handlers, AssignmentCall(h) \/ SwapCall(h) PROVE TInv' /\ Final
  BY <1>4, AssignmentCallInTurn, SwapCallInTurn DEF Procs
<1>5. ASSUME NEW r \in Requests, ExpireStart(r) PROVE TInv' /\ Final
  BY <1>5, ExpireStartInTurn
<1>6. CASE Tick \/ (\E p \in Staff : Requalify(p)) \/ UNCHANGED vars
  <2>1. UNCHANGED <<request, job>>
    BY <1>6 DEF Tick, Requalify, vars, swapVars
  <2> QED
    BY <2>1 DEF TInv, GuardsHold, GuardOK, OpenIsUnclaimed, ExpiredWasUnclaimed, FewActive,
                CapRespected, OneActivePerAssignment, BelowCap, NoActiveRequest, ActiveOf,
                Active, Final
<1> QED
  BY <1>1, <1>2, <1>3, <1>4, <1>5, <1>6 DEF Next, HandlerStep

LEMMA InitTInv == Init => TInv
<1> SUFFICES ASSUME Init PROVE TInv
  OBVIOUS
<1>1. /\ \A r \in Requests : request[r].status = "NONE"
      /\ \A h \in Procs : job[h].pc = "idle"
  BY NoJobIsIdle DEF Init, NoRequest
<1>2. GuardsHold /\ OpenIsUnclaimed /\ ExpiredWasUnclaimed /\ OneActivePerAssignment
  BY <1>1 DEF GuardsHold, GuardOK, OpenIsUnclaimed, ExpiredWasUnclaimed,
              OneActivePerAssignment, Active, ActiveStatuses, TransferSteps, RowCreations
<1>3. \A p \in Staff : ActiveOf(p) = {}
  BY <1>1 DEF ActiveOf, Active, ActiveStatuses
<1>4. FewActive /\ CapRespected
  BY <1>3, FS_EmptySet, RulesAssumption DEF FewActive, CapRespected
<1> QED
  BY <1>2, <1>4 DEF TInv

LEMMA TurnInvariant == Spec /\ []InTurn => []TInv
<1>1. Init => TInv
  BY InitTInv
<1>2. IInv /\ InTurn /\ TInv /\ [Next]_vars => TInv'
  BY NextInTurn
<1> QED
  BY <1>1, <1>2, InvariantHolds, PTL DEF Spec

\* InTurn is no idle hypothesis: with one slot for calls and jobs, as in the runs in turn,
\* every behaviour satisfies it.
LEMMA OneSlotTakesTurns ==
  ASSUME \A g, h \in Procs : g = h
  PROVE  Spec => []InTurn
<1>1. InTurn
  BY DEF InTurn
<1> QED
  BY <1>1, PTL

\* As long as calls do not overlap, a request that has been approved, rejected, cancelled
\* or expired stays so: every service reads the status before it writes it, and that is
\* all that protects it.
THEOREM ResolvedInTurn == Spec /\ []InTurn => ResolvedIsFinal
<1>1. IInv /\ InTurn /\ TInv /\ [Next]_vars =>
        [\A r \in Requests : request[r].status \in ResolvedStatuses
           => request'[r].status = request[r].status]_vars
  BY NextInTurn DEF Final
<1> QED
  BY <1>1, InvariantHolds, TurnInvariant, PTL DEF Spec, ResolvedIsFinal

\* As long as calls do not overlap, nobody gets past the cap on active requests, for any
\* cap and any number of requests: whatever activates a request has just counted them.
THEOREM CapInTurn == Spec /\ []InTurn => []CapRespected
<1>1. TInv => CapRespected
  BY DEF TInv
<1> QED
  BY <1>1, TurnInvariant, PTL

\* As long as calls do not overlap, a seat is on offer in one active request at most, so
\* that a manager never approves a second transfer of it.
THEOREM OneOfferInTurn == Spec /\ []InTurn => []OneActivePerAssignment
<1>1. TInv => OneActivePerAssignment
  BY DEF TInv
<1> QED
  BY <1>1, TurnInvariant, PTL

\* As long as calls do not overlap, the worker expires only drops nobody has claimed.
THEOREM ExpiryInTurn == Spec /\ []InTurn => []ExpiredWasUnclaimed
<1>1. TInv => ExpiredWasUnclaimed
  BY DEF TInv
<1> QED
  BY <1>1, TurnInvariant, PTL
=============================================================================
