------------------------------- MODULE Tables -------------------------------
(***************************************************************************)
(* The database of ShiftSync as its services see it, and what every       *)
(* request handler shares: the tables, the edit cutoff, the constraint    *)
(* engine's verdict on one assignment, and the bookkeeping of a handler   *)
(* between two awaits.                                                    *)
(*                                                                        *)
(* A handler is one HTTP call (or one run of the expiry worker) in        *)
(* flight.  The server is one Node process, so its handlers interleave at *)
(* every await; the reads up to the first write are one step when they    *)
(* can only refuse the call, every write is a step, and a transaction is  *)
(* visible to the others at its commit.  What a handler has read and      *)
(* still holds in local variables is its record in job.                   *)
(***************************************************************************)
EXTENDS Integers, FiniteSets

CONSTANTS
  Staff,        \* staff members
  Shifts,       \* shift ids, all in one schedule week of one location
  Requests,     \* swap request ids
  Handlers,     \* HTTP calls that may be in flight at the same time
  Worker,       \* the BullMQ worker of the swap-expiry queue
  Windows,      \* [start, end) pairs a shift may be given
  Needs,        \* values of headcountNeeded
  MinRest,      \* minRestHours
  LookBehind,   \* how far before a shift the engine fetches assignments
  LookAhead,    \* how far after it
  MaxPending,   \* maxPendingSwapRequestsPerStaff
  CutoffHours,  \* publishCutoffHours of the week
  ExpiryHours,  \* dropRequestExpiryHoursBeforeShift
  MaxNow,       \* bound on the clock
  Endpoints,    \* the operations the clients of a run call
  Faults,       \* may a handler die between two awaits
  InitWindow,   \* the shifts as first drafted
  InitLive,     \* which of them exist at the start
  InitRoster,   \* who is assigned at the start: <<shift, staff>> pairs
  None

Procs == Handlers \cup {Worker}

VARIABLES
  life,        \* Shift rows: FRESH (not created yet), LIVE or DELETED
  window,      \* Shift.startAt and endAt
  need,        \* Shift.headcountNeeded
  assignment,  \* ShiftAssignment.status per shift and staff, NONE without a row
  request,     \* SwapRequest rows
  published,   \* ScheduleWeek.isPublished
  qualified,   \* staff with the skill, the certification and the availability
  now,         \* the clock, in hours
  userLock,    \* who holds the User row locked FOR UPDATE
  queue,       \* delayed jobs of the swap-expiry queue, by their jobId
  job,         \* local variables and position of each handler in flight
  edited,      \* history: held pairs whose shift moved since the engine's verdict
  moved        \* history: transfers committed for each request

shiftVars  == <<life, window, need>>
rosterVars == <<assignment, edited>>
swapVars   == <<request, moved>>
worldVars  == <<published, qualified, now>>
vars == <<life, window, need, assignment, request, published, qualified, now,
          userLock, queue, job, edited, moved>>

-----------------------------------------------------------------------------
(* Types *)

AssignmentStatus == {"NONE", "ASSIGNED", "CANCELLED"}

ActiveStatuses == {"PENDING", "PENDING_TARGET", "PENDING_MANAGER"}
ResolvedStatuses == {"APPROVED", "REJECTED", "CANCELLED", "EXPIRED"}

SwapRequest ==
  [type: {"SWAP", "DROP"},
   status: ActiveStatuses \cup ResolvedStatuses \cup {"NONE"},
   initiator: Staff \cup {None},
   shift: Shifts \cup {None},         \* initiatorAssignment is (shift, initiator)
   counterparty: Staff \cup {None},
   back: Shifts \cup {None},          \* proposedReturnAssignment is (back, counterparty)
   expiresAt: Int]                    \* read for a DROP only

NoRequest ==
  [type |-> "SWAP", status |-> "NONE", initiator |-> None, shift |-> None,
   counterparty |-> None, back |-> None, expiresAt |-> 0]

\* Steps inside a transaction that has the staff row locked.
LockedSteps == {"assign_count", "assign_check", "assign_write",
                "transfer_check", "transfer_write"}

Steps == LockedSteps \cup
  {"idle", "assign_lock", "transfer_lock", "approve_write",
   "unassign_write", "cancel_find", "cancel_all",
   "create_write", "edit_write", "edit_rows", "remove_count", "remove_delete",
   "publish_write", "unpublish_write", "swap_create", "drop_create", "drop_enqueue",
   "accept_write", "decline_write", "claim_write", "cancel_write",
   "cancel_job", "reject_write", "expire_write"}

Job ==
  [pc: Steps, req: Requests \cup {None}, shift: Shifts \cup {None},
   from: Staff \cup {None}, to: Staff \cup {None},
   win: Windows \cup {None}, need: Needs \cup {None},
   back: Shifts \cup {None}, backWin: Windows \cup {None},
   expiresAt: Int, rows: SUBSET Staff, hits: SUBSET Requests]

NoJob ==
  [pc |-> "idle", req |-> None, shift |-> None, from |-> None, to |-> None,
   win |-> None, need |-> None, back |-> None, backWin |-> None,
   expiresAt |-> 0, rows |-> {}, hits |-> {}]

-----------------------------------------------------------------------------
(* Reading the tables *)

Live(s) == life[s] = "LIVE"
Holds(p, s) == assignment[s][p] = "ASSIGNED"
HoldersOf(s) == {p \in Staff : Holds(p, s)}
RowsOf(s) == {p \in Staff : assignment[s][p] # "NONE"}
Active(r) == request[r].status \in ActiveStatuses

\* assertEditableOrThrow: an unpublished week, or a start still before its cutoff.
Editable(start) == ~published \/ now < start - CutoffHours

-----------------------------------------------------------------------------
(* The constraint engine's time rules, over the assignments it fetches. *)

Overlaps(v, w) == v.start < w.end /\ v.end > w.start

RestGap(v, w) == IF v.end =< w.start THEN w.start - v.end ELSE v.start - w.end

Clash(v, w) == Overlaps(v, w) \/ RestGap(v, w) < MinRest

Nearby(v, w) == v.start < w.end + LookAhead /\ v.end > w.start - LookBehind

\* The shifts of p that evaluateAssignment looks at for a candidate window.
NearbyShifts(p, excluded, w) ==
  {t \in Shifts \ {excluded} : Holds(p, t) /\ Nearby(window[t], w)}

EngineAccepts(p, excluded, w) ==
  /\ p \in qualified
  /\ \A t \in NearbyShifts(p, excluded, w) : ~Clash(window[t], w)

-----------------------------------------------------------------------------
(* The life of a handler *)

Idle(h) == job[h].pc = "idle"
At(h, pc) == job[h].pc = pc

Continue(h, j) == job' = [job EXCEPT ![h] = j]
Finish(h) == Continue(h, NoJob)
Advance(h, pc) == Continue(h, [job[h] EXCEPT !.pc = pc])

ReleaseLocks(h) ==
  userLock' = [p \in Staff |-> IF userLock[p] = h THEN None ELSE userLock[p]]

RefuseInTransaction(h) ==
  /\ Finish(h)
  /\ UNCHANGED <<shiftVars, rosterVars, swapVars, worldVars, userLock, queue>>

\* A call that is refused: its transaction, if it has one open, rolls back.
Refuse(h) ==
  /\ Finish(h)
  /\ ReleaseLocks(h)
  /\ UNCHANGED <<shiftVars, rosterVars, swapVars, worldVars, queue>>

EnterUnlocked(h, pc) ==
  /\ userLock' = [userLock EXCEPT ![job[h].to] = h]
  /\ Advance(h, pc)
  /\ UNCHANGED <<shiftVars, rosterVars, swapVars, worldVars, queue>>

\* The transaction's SELECT ... FOR UPDATE on the staff member it assigns to.
TakeLockAndGoTo(h, pc) ==
  /\ userLock[job[h].to] = None
  /\ userLock' = [userLock EXCEPT ![job[h].to] = h]
  /\ Advance(h, pc)
  /\ UNCHANGED <<shiftVars, rosterVars, swapVars, worldVars, queue>>

\* A local step of a handler: nothing but its own variables changes.
OnlyJob == UNCHANGED <<shiftVars, rosterVars, swapVars, worldVars, userLock, queue>>

-----------------------------------------------------------------------------
Init ==
  /\ life = [s \in Shifts |-> IF s \in InitLive THEN "LIVE" ELSE "FRESH"]
  /\ window = InitWindow
  /\ need \in [Shifts -> Needs]
  /\ assignment = [s \in Shifts |-> [p \in Staff |->
                     IF <<s, p>> \in InitRoster THEN "ASSIGNED" ELSE "NONE"]]
  /\ request = [r \in Requests |-> NoRequest]
  /\ published = FALSE
  /\ qualified = Staff
  /\ now = 0
  /\ userLock = [p \in Staff |-> None]
  /\ queue = {}
  /\ job = [h \in Procs |-> NoJob]
  /\ edited = {}
  /\ moved = [r \in Requests |-> {}]

ASSUME WindowsAssumption ==
  Windows \subseteq {w \in [start: Int, end: Int] : w.start < w.end}

ASSUME EngineAssumption ==
  /\ MinRest \in Nat /\ LookBehind \in Nat /\ LookAhead \in Nat
  /\ MinRest =< LookBehind /\ MinRest =< LookAhead

ASSUME RulesAssumption ==
  /\ Needs \subseteq Nat /\ MaxPending \in Nat
  /\ CutoffHours \in Nat /\ ExpiryHours \in Nat /\ MaxNow \in Nat

\* The User table has finitely many rows.
ASSUME StaffAssumption == IsFiniteSet(Staff)

ASSUME NoneAssumption ==
  /\ None \notin Staff /\ None \notin Shifts /\ None \notin Requests
  /\ None \notin Procs /\ None \notin Windows /\ None \notin Needs

ASSUME InitAssumption ==
  /\ InitWindow \in [Shifts -> Windows]
  /\ InitLive \subseteq Shifts
  /\ InitRoster \subseteq InitLive \X Staff
  /\ \A a, b \in InitRoster :
       a[2] = b[2] /\ a[1] # b[1] => ~Clash(InitWindow[a[1]], InitWindow[b[1]])

TypeOK ==
  /\ life \in [Shifts -> {"FRESH", "LIVE", "DELETED"}]
  /\ window \in [Shifts -> Windows]
  /\ need \in [Shifts -> Needs]
  /\ assignment \in [Shifts -> [Staff -> AssignmentStatus]]
  /\ request \in [Requests -> SwapRequest]
  /\ published \in BOOLEAN
  /\ qualified \subseteq Staff
  /\ now \in 0..MaxNow
  /\ userLock \in [Staff -> Procs \cup {None}]
  /\ queue \subseteq Requests
  /\ job \in [Procs -> Job]
  /\ edited \subseteq Shifts \X Staff
  /\ moved \in [Requests -> SUBSET (Shifts \X Staff \X Staff)]
=============================================================================
