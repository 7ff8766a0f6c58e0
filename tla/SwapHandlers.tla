---------------------------- MODULE SwapHandlers ----------------------------
(***************************************************************************)
(* SwapsService: requesting a swap or a drop, answering it, cancelling    *)
(* it, the manager's decision with the transfer of one or two shifts, and *)
(* the expiry of drops by the queue's worker.                             *)
(***************************************************************************)
EXTENDS AssignmentHandlers

-----------------------------------------------------------------------------
(* What the checks of a new request read *)

ActiveOf(p) == {r \in Requests : Active(r) /\ request[r].initiator = p}

BelowOrAtCap(p) == Cardinality(ActiveOf(p)) =< MaxPending

BelowCap(p) == Cardinality(ActiveOf(p)) < MaxPending

NotAsked(s, p) == TRUE

NoActiveRequest(s, p) ==
  \A r \in Requests : ~(Active(r) /\ request[r].shift = s /\ request[r].initiator = p)

MayRequest(p, s) == BelowCap(p) /\ Holds(p, s) /\ NoActiveRequest(s, p)

\* An id nobody uses: ids are fresh UUIDs.
Unused(r) == request[r].status = "NONE" /\ \A g \in Procs : job[g].req # r

SetStatus(r, status) == request' = [request EXCEPT ![r].status = status]

\* A write to one request that ends its handler, or leads to its next step.
StatusStep(h, at, status, then) ==
  /\ At(h, at)
  /\ SetStatus(job[h].req, status)
  /\ IF then = "idle" THEN Finish(h) ELSE Advance(h, then)
  /\ UNCHANGED <<shiftVars, rosterVars, moved, worldVars, userLock, queue>>

-----------------------------------------------------------------------------
(* requestSwap and requestDrop *)

SwapStart(h, r, p, s, q, b) ==
  /\ "swap" \in Endpoints
  /\ Idle(h) /\ Unused(r)
  /\ MayRequest(p, s) /\ q # p
  /\ b # None => Holds(q, b)
  /\ Continue(h, [NoJob EXCEPT !.pc = "swap_create", !.req = r, !.shift = s,
                               !.from = p, !.to = q, !.back = b])
  /\ OnlyJob

\* The foreign keys: both assignment rows still exist.
RowsExist(h) ==
  /\ assignment[job[h].shift][job[h].from] # "NONE"
  /\ job[h].back # None => assignment[job[h].back][job[h].to] # "NONE"

SwapCreate(h) ==
  /\ At(h, "swap_create")
  /\ \/ /\ RowsExist(h)
        /\ request' = [request EXCEPT ![job[h].req] =
             [type |-> "SWAP", status |-> "PENDING_TARGET", initiator |-> job[h].from,
              shift |-> job[h].shift, counterparty |-> job[h].to, back |-> job[h].back,
              expiresAt |-> 0]]
        /\ Finish(h)
        /\ UNCHANGED <<shiftVars, rosterVars, moved, worldVars, userLock, queue>>
     \/ ~RowsExist(h) /\ Refuse(h)

DropExpiry(start) == IF start - ExpiryHours > now THEN start - ExpiryHours ELSE start

DropStart(h, r, p, s) ==
  /\ "drop" \in Endpoints
  /\ Idle(h) /\ Unused(r)
  /\ MayRequest(p, s)
  /\ now < window[s].start
  /\ Continue(h, [NoJob EXCEPT !.pc = "drop_create", !.req = r, !.shift = s,
                               !.from = p, !.expiresAt = DropExpiry(window[s].start)])
  /\ OnlyJob

DropCreateThen(h, then) ==
  /\ At(h, "drop_create")
  /\ \/ /\ RowsExist(h)
        /\ request' = [request EXCEPT ![job[h].req] =
             [type |-> "DROP", status |-> "PENDING", initiator |-> job[h].from,
              shift |-> job[h].shift, counterparty |-> None, back |-> None,
              expiresAt |-> job[h].expiresAt]]
        /\ then
        /\ UNCHANGED <<shiftVars, rosterVars, moved, worldVars, userLock, queue>>
     \/ ~RowsExist(h) /\ Refuse(h)

DropCreateOnly(h) == DropCreateThen(h, Finish(h))

DropCreate(h) == DropCreateThen(h, Advance(h, "drop_enqueue"))

\* Only now is the expiry job put on the queue.
DropEnqueue(h) ==
  /\ At(h, "drop_enqueue")
  /\ queue' = queue \cup {job[h].req}
  /\ Finish(h)
  /\ UNCHANGED <<shiftVars, rosterVars, swapVars, worldVars, userLock>>

-----------------------------------------------------------------------------
(* Answers: accept, decline, claim, cancel *)

AwaitsTarget(r) == request[r].type = "SWAP" /\ request[r].status = "PENDING_TARGET"

Begin(h, r, pc) == Continue(h, [NoJob EXCEPT !.pc = pc, !.req = r])

ReturnSideActive(r) ==
  request[r].back # None => Holds(request[r].counterparty, request[r].back)

AcceptStart(h, r) ==
  /\ "accept" \in Endpoints
  /\ Idle(h) /\ AwaitsTarget(r) /\ ReturnSideActive(r)
  /\ Begin(h, r, "accept_write")
  /\ OnlyJob

AcceptedUnread(h) == StatusStep(h, "accept_write", "ACCEPTED", "idle")

AcceptWrite(h) == StatusStep(h, "accept_write", "PENDING_MANAGER", "idle")

DeclineStart(h, r) ==
  /\ "decline" \in Endpoints
  /\ Idle(h) /\ AwaitsTarget(r)
  /\ Begin(h, r, "decline_write")
  /\ OnlyJob

DeclineWrite(h) == StatusStep(h, "decline_write", "REJECTED", "idle")

\* The engine judges the claimant without a lock and without leaving out the
\* claimant's own row of this shift.
ClaimStart(h, r, q) ==
  /\ "claim" \in Endpoints
  /\ Idle(h)
  /\ request[r].type = "DROP" /\ request[r].status = "PENDING"
  /\ request[r].initiator # q /\ now < request[r].expiresAt
  /\ EngineAccepts(q, None, window[request[r].shift])
  /\ Continue(h, [NoJob EXCEPT !.pc = "claim_write", !.req = r, !.to = q])
  /\ OnlyJob

ClaimWrite(h) ==
  /\ At(h, "claim_write")
  /\ request' = [request EXCEPT ![job[h].req].status = "PENDING_MANAGER",
                                ![job[h].req].counterparty = job[h].to]
  /\ Finish(h)
  /\ UNCHANGED <<shiftVars, rosterVars, moved, worldVars, userLock, queue>>

CancelAnything(h, r) ==
  /\ "cancel" \in Endpoints
  /\ Idle(h) /\ request[r].status # "NONE"
  /\ Begin(h, r, "cancel_write")
  /\ OnlyJob

CancelStart(h, r) ==
  /\ "cancel" \in Endpoints
  /\ Idle(h) /\ Active(r)
  /\ Begin(h, r, "cancel_write")
  /\ OnlyJob

CancelWrite(h) == StatusStep(h, "cancel_write", "CANCELLED", "cancel_job")

CancelJob(h) ==
  /\ At(h, "cancel_job")
  /\ queue' = queue \ {job[h].req}
  /\ Finish(h)
  /\ UNCHANGED <<shiftVars, rosterVars, swapVars, worldVars, userLock>>

-----------------------------------------------------------------------------
(* The manager's decision *)

\* What transferAssignment is called with: hand shift s, at the times w, from p to q,
\* and then, unless b is None, shift b back.
TransferJob(r, s, p, q, w, b, bw) ==
  [NoJob EXCEPT !.pc = "transfer_lock", !.req = r, !.shift = s, !.from = p, !.to = q,
                !.win = w, !.back = b, !.backWin = bw]

\* The times of both shifts are read here, with the request, and the engine judges
\* those later on.
BeginApproval(h, r) ==
  LET q == request[r]
  IN  Continue(h, TransferJob(r, q.shift, q.initiator, q.counterparty, window[q.shift],
                              q.back, IF q.back = None THEN None ELSE window[q.back]))

ApproveStart(h, r) ==
  /\ "approve" \in Endpoints
  /\ Idle(h)
  /\ request[r].status = "PENDING_MANAGER" /\ request[r].counterparty # None
  /\ BeginApproval(h, r)
  /\ OnlyJob

TransferLock(h) == At(h, "transfer_lock") /\ TakeLockAndGoTo(h, "transfer_check")

JudgesInitiator(h) ==
  /\ Holds(job[h].from, job[h].shift)
  /\ EngineAccepts(job[h].from, job[h].shift, job[h].win)

TransferAccepts(h) ==
  /\ Holds(job[h].from, job[h].shift)
  /\ EngineAccepts(job[h].to, job[h].shift, job[h].win)

TransferCheck(h) ==
  /\ At(h, "transfer_check")
  /\ \/ TransferAccepts(h) /\ Advance(h, "transfer_write") /\ OnlyJob
     \/ ~TransferAccepts(h) /\ Refuse(h)

ResolvedAfterOneTransfer(h) == [NoJob EXCEPT !.pc = "approve_write", !.req = job[h].req]

\* What follows a committed transfer: the return shift, if one was offered,
\* goes the other way in a transaction of its own; then the request is resolved.
AfterTransfer(h) ==
  IF job[h].back = None
  THEN [NoJob EXCEPT !.pc = "approve_write", !.req = job[h].req]
  ELSE TransferJob(job[h].req, job[h].back, job[h].to, job[h].from, job[h].backWin,
                   None, None)

Transfer(h, s, p, q) ==
  /\ assignment' = [assignment EXCEPT ![s][p] = "CANCELLED", ![s][q] = "ASSIGNED"]
  /\ edited' = Judged(s, q, job[h].win) \ {<<s, p>>}
  /\ moved' = [moved EXCEPT ![job[h].req] = @ \cup {<<s, p, q>>}]

TransferWrite(h) ==
  /\ At(h, "transfer_write")
  /\ \/ /\ Live(job[h].shift)
        /\ Transfer(h, job[h].shift, job[h].from, job[h].to)
        /\ Continue(h, AfterTransfer(h))
        /\ ReleaseLocks(h)
        /\ UNCHANGED <<shiftVars, request, worldVars, queue>>
     \/ ~Live(job[h].shift) /\ Refuse(h)

ApproveWrite(h) == StatusStep(h, "approve_write", "APPROVED", "idle")

RejectStart(h, r) ==
  /\ "reject" \in Endpoints
  /\ Idle(h) /\ request[r].status = "PENDING_MANAGER"
  /\ Begin(h, r, "reject_write")
  /\ OnlyJob

RejectWrite(h) == StatusStep(h, "reject_write", "REJECTED", "idle")

-----------------------------------------------------------------------------
(* The expiry worker *)

ExpireWhateverStatus(r) ==
  /\ Idle(Worker)
  /\ r \in queue /\ request[r].expiresAt =< now
  /\ queue' = queue \ {r}
  /\ Begin(Worker, r, "expire_write")
  /\ UNCHANGED <<shiftVars, rosterVars, swapVars, worldVars, userLock>>

\* The worker takes a job whose delay is over and finds the request pending, or
\* has nothing to do.
ExpireStart(r) ==
  /\ Idle(Worker)
  /\ r \in queue /\ request[r].expiresAt =< now
  /\ queue' = queue \ {r}
  /\ IF request[r].status = "PENDING" THEN Begin(Worker, r, "expire_write") ELSE UNCHANGED job
  /\ UNCHANGED <<shiftVars, rosterVars, swapVars, worldVars, userLock>>

ExpireWrite(h) == StatusStep(h, "expire_write", "EXPIRED", "idle")

\* A process that dies in the middle of a job leaves it stalled, and the queue
\* hands it out again.
StalledJob(h) ==
  /\ Faults
  /\ At(h, "expire_write")
  /\ queue' = queue \cup {job[h].req}
  /\ Finish(h)
  /\ UNCHANGED <<shiftVars, rosterVars, swapVars, worldVars, userLock>>
=============================================================================
