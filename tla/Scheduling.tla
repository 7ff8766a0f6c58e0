----------------------------- MODULE Scheduling -----------------------------
(***************************************************************************)
(* The scheduling system: the calls of managers and staff, the expiry     *)
(* worker and the clock, interleaved over one database, and what the      *)
(* system promises about assignments and swap requests.                   *)
(***************************************************************************)
EXTENDS SwapHandlers

-----------------------------------------------------------------------------
(* The world around the handlers *)

Tick ==
  /\ now < MaxNow
  /\ now' = now + 1
  /\ UNCHANGED <<shiftVars, rosterVars, swapVars, published, qualified, userLock, queue, job>>

\* Skills, certifications and availability are granted and revoked by calls that
\* write one row and read nothing of the schedule.
Requalify(p) ==
  /\ "requalify" \in Endpoints
  /\ qualified' = IF p \in qualified THEN qualified \ {p} ELSE qualified \cup {p}
  /\ UNCHANGED <<shiftVars, rosterVars, swapVars, published, now, userLock, queue, job>>

\* A handler dies at an await: the database fails, the transaction times out, or
\* the process stops.  An open transaction rolls back; what was written stays.
Fault(h) == Faults /\ ~Idle(h) /\ Refuse(h)

-----------------------------------------------------------------------------
AssignmentStep(h) ==
  \/ AssignLock(h) \/ AssignCount(h) \/ AssignCheck(h) \/ AssignWrite(h)
  \/ UnassignWrite(h) \/ CancelFind(h) \/ CancelAll(h)
  \/ CreateWrite(h) \/ EditWrite(h) \/ EditRows(h)
  \/ RemoveCount(h) \/ RemoveDelete(h)
  \/ PublishWrite(h) \/ UnpublishWrite(h)

SwapStep(h) ==
  \/ SwapCreate(h) \/ DropCreate(h) \/ DropEnqueue(h)
  \/ AcceptWrite(h) \/ DeclineWrite(h) \/ ClaimWrite(h)
  \/ CancelWrite(h) \/ CancelJob(h) \/ RejectWrite(h) \/ ExpireWrite(h)
  \/ TransferLock(h) \/ TransferCheck(h) \/ TransferWrite(h) \/ ApproveWrite(h)

HandlerStep(h) == AssignmentStep(h) \/ SwapStep(h)

AssignmentCall(h) ==
  \/ \E s \in Shifts, p \in Staff : AssignStart(h, s, p) \/ UnassignStart(h, s, p)
  \/ \E s \in Shifts, w \in Windows, n \in Needs :
       CreateStart(h, s, w, n) \/ EditStart(h, s, w, n)
  \/ \E s \in Shifts : RemoveStart(h, s)
  \/ PublishStart(h) \/ UnpublishStart(h)

SwapCall(h) ==
  \E r \in Requests :
     \/ \E p, q \in Staff, s \in Shifts, b \in Shifts \cup {None} : SwapStart(h, r, p, s, q, b)
     \/ \E p \in Staff, s \in Shifts : DropStart(h, r, p, s)
     \/ AcceptStart(h, r) \/ DeclineStart(h, r) \/ CancelStart(h, r)
     \/ ApproveStart(h, r) \/ RejectStart(h, r)
     \/ \E q \in Staff : ClaimStart(h, r, q)

Next ==
  \/ \E h \in Procs : HandlerStep(h) \/ Fault(h) \/ StalledJob(h)
  \/ \E h \in Handlers : AssignmentCall(h) \/ SwapCall(h)
  \/ \E r \in Requests : ExpireStart(r)
  \/ \E p \in Staff : Requalify(p)
  \/ Tick

Spec == Init /\ [][Next]_vars

-----------------------------------------------------------------------------
(* Fairness.  Node runs every continuation whose await is over, and Postgres *)
(* queues the transactions that wait for a row, so a handler that is in      *)
(* flight goes on, and one that waits for a lock which keeps being freed     *)
(* gets it.  Time passes, and the worker takes the jobs that are due.        *)

Fairness ==
  /\ \A h \in Procs : WF_vars(HandlerStep(h))
  /\ \A h \in Procs : SF_vars(AssignLock(h)) /\ SF_vars(TransferLock(h))
  /\ \A r \in Requests : SF_vars(ExpireStart(r))
  /\ WF_vars(Tick)

FairSpec == Spec /\ Fairness

-----------------------------------------------------------------------------
(* Safety under every interleaving *)

\* Two shifts of one person overlap or leave too little rest only if one of them
\* was moved by a manager after it was last judged: assign and transferAssignment,
\* which lock the staff member and run the engine before they write, never create
\* such a pair, whatever other calls run in between.
NoUncheckedClash ==
  \A p \in Staff : \A s, t \in Shifts :
     s # t /\ Holds(p, s) /\ Holds(p, t) /\ Clash(window[s], window[t])
        => <<s, p>> \in edited \/ <<t, p>> \in edited

\* A request that reads APPROVED has had its shift handed over from its initiator,
\* and its return shift, if it still names one, handed back to the initiator:
\* managerApprove resolves a request only after the transfers have committed.
ApprovedMeansMoved ==
  \A r \in Requests : request[r].status = "APPROVED" =>
     /\ \E q \in Staff : <<request[r].shift, request[r].initiator, q>> \in moved[r]
     /\ request[r].back # None =>
          <<request[r].back, request[r].counterparty, request[r].initiator>> \in moved[r]

\* No request outlives its shift: the row of initiatorAssignment is still there, and
\* the return row too if the request still names one.
NoDanglingRequest ==
  \A r \in Requests : request[r].status # "NONE" =>
     /\ assignment[request[r].shift][request[r].initiator] # "NONE"
     /\ request[r].back # None => assignment[request[r].back][request[r].counterparty] # "NONE"

\* The roster changes one seat at a time and as the abstract roster allows.
R == INSTANCE Roster WITH
       held <- {seat \in Shifts \X Staff : Holds(seat[2], seat[1])},
       times <- window,
       unvetted <- edited

ImplementsRoster == R!RSpec

-----------------------------------------------------------------------------
(* Safety when calls do not overlap *)

\* A resolved request never changes its status again: not by a late answer, not by
\* the expiry worker, not by the automatic cancellation after an edit.
ResolvedIsFinal ==
  [][\A r \in Requests : request[r].status \in ResolvedStatuses
        => request'[r].status = request[r].status]_vars

\* Nobody has more active requests than the pending cap.
CapRespected == \A p \in Staff : Cardinality(ActiveOf(p)) =< MaxPending

\* One assignment is offered by one active request at a time.
OneActivePerAssignment ==
  \A r1, r2 \in Requests :
     r1 # r2 /\ Active(r1) /\ Active(r2) /\ request[r1].shift = request[r2].shift
        => request[r1].initiator # request[r2].initiator

\* The worker writes EXPIRED over a request nobody has claimed, so "Nobody claimed
\* your dropped shift in time" is true when it is sent.
ExpiredWasUnclaimed ==
  \A r \in Requests : request[r].status = "EXPIRED" => request[r].counterparty = None

\* When no call is in flight, both sides of an active request hold the shifts they
\* offer, unless an approved transfer has taken one away: unassign and edits leave no
\* request behind that a manager could no longer approve.
GivenAway(s, p) == \E r \in Requests, q \in Staff : <<s, p, q>> \in moved[r]

LiveRequestIsCurrent ==
  (\A h \in Procs : Idle(h)) =>
     \A r \in Requests : Active(r) =>
        /\ Holds(request[r].initiator, request[r].shift)
             \/ GivenAway(request[r].shift, request[r].initiator)
        /\ request[r].back # None =>
             Holds(request[r].counterparty, request[r].back)
               \/ GivenAway(request[r].back, request[r].counterparty)

\* When an edit returns, no request is active on a seat of the edited shift: the
\* manager's edit cancelled them all.
EditCancelsRequests ==
  [][\A h \in Procs :
       At(h, "edit_rows") \/ At(h, "cancel_find") \/ At(h, "cancel_all") =>
         (job'[h].pc = "idle" =>
            \A r \in Requests : \A p \in HoldersOf(job[h].shift) \cap
                 (IF At(h, "edit_rows") THEN Staff ELSE job[h].rows) :
               RefersTo(r, job[h].shift, {p}) => request'[r].status \notin ActiveStatuses)]_vars

\* Whoever comes on top of the people on a shift leaves it within its headcount.  An
\* update may shrink the headcount below the number of people already there, but
\* neither assign nor a transfer then adds another.
HeadcountRespected ==
  [][\A s \in Shifts : Cardinality(HoldersOf(s)') > Cardinality(HoldersOf(s))
        => Cardinality(HoldersOf(s)') =< need'[s]]_vars

\* Past the cutoff of a published week a shift is not moved, resized or deleted, and
\* its seats change only by the transfers of an approved request.
FrozenAfterCutoff ==
  [][\A s \in Shifts : Live(s) /\ ~Editable(window[s].start) =>
       /\ window'[s] = window[s] /\ need'[s] = need[s] /\ life'[s] = life[s]
       /\ assignment'[s] # assignment[s] =>
            \E h \in Procs : At(h, "transfer_write") /\ job[h].shift = s]_vars

\* While a request is pending and no call is handling it, none of its shifts has been
\* touched.
PendingUntouched ==
  \A r \in Requests :
     Active(r) /\ (\A h \in Procs : job[h].req # r) => moved[r] = {}

\* Nobody holds two shifts that overlap or leave too little rest between them.
NoClash ==
  \A p \in Staff : \A s, t \in Shifts :
     s # t /\ Holds(p, s) /\ Holds(p, t) => ~Clash(window[s], window[t])

-----------------------------------------------------------------------------
(* Liveness *)

\* Every call ends: no handler waits forever for the lock of a staff member.
HandlersFinish == \A h \in Procs : ~Idle(h) ~> Idle(h)

\* A drop does not stay open for ever: somebody claims it, or it expires.
DropsAreResolved ==
  \A r \in Requests : request[r].status = "PENDING" ~> request[r].status # "PENDING"
=============================================================================
