---------------------------- MODULE OfficeTables ----------------------------
(***************************************************************************)
(* What surrounds the schedule: the accounts and their refresh tokens, who *)
(* manages and who is certified at the location, the week, the stamps of   *)
(* the time clock on the seats of one shift, the audit log, the in-app     *)
(* notifications and the queue of mails.                                   *)
(*                                                                         *)
(* A call is numbered when it arrives and runs once.  Calls interleave at  *)
(* every await: after the reads that decide something (and, for the clock, *)
(* after the time was taken that the write will stamp), after every write, *)
(* before the audit entry that most services write on a connection of its  *)
(* own, before the recipients of a notification are read, before the       *)
(* notifications are inserted and after each mail.                         *)
(***************************************************************************)
EXTENDS Integers, FiniteSets

CONSTANTS
  People,        \* users of the location, employed or still to be created
  MaxCalls,      \* bound on the calls of a behaviour
  Scopes,        \* what a behaviour may be about: which operations, how many calls
  InitPeople,    \* who has an account at the start
  InitByMail,    \* who has chosen to get mail as well
  InitManagers,  \* managers of the location at the start
  InitCertified, \* staff certified there at the start
  InitSeated,    \* who is assigned to the shift at the start
  InitWorked,    \* who has clocked in and out of it and was then unassigned
  ShiftStart,
  ShiftEnd,
  EarlyClockIn,  \* EARLY_CLOCK_IN_WINDOW_MINUTES
  CutoffHours,   \* publishCutoffHours of the week
  MaxNow,        \* bound on the clock
  MaxStalls,     \* how often the queue hands a stalled mail job out again
  Faults,        \* may a call die between two awaits
  None

Calls == 1..MaxCalls

AccountKinds == {"create", "update", "setActive", "profile", "login", "refresh", "logout"}
OfficeKinds == {"open", "publish", "unpublish", "certify", "decertify",
                "grantSkill", "revokeSkill", "assignManager", "unassignManager"}
SeatKinds == {"assign", "unassign", "clockIn", "clockOut"}
SwapKinds == {"requestSwap", "accept", "claim", "decline", "cancel", "approve", "reject", "expire"}
Kinds == AccountKinds \cup OfficeKinds \cup SeatKinds \cup SwapKinds

VARIABLES
  scope,      \* what this behaviour is about; never changes
  user,       \* User rows: isActive and notificationChannel
  token,      \* RefreshToken rows, by the call that created them
  manages,    \* ManagerLocation rows
  certified,  \* StaffLocation rows that are not decertified
  skilled,    \* StaffSkill rows, by their user: the call that created the row, 0 for none
  week,       \* the ScheduleWeek row
  seat,       \* ShiftAssignment rows of the shift: status, clockInAt and clockOutAt
  notice,     \* Notification rows, by the call they are about and their user
  mail,       \* jobs of the mail queue, likewise
  weekEntry,  \* what the newest AuditLog entry of the week says of it
  overtaken,  \* history: calls whose change of the week had no entry when it was changed
              \* again, last time, and those that have died since without writing theirs
  now,        \* the clock
  call,       \* position and local variables of each call
  wrote,      \* history: calls whose write statement has committed, with or without effect
  reclocked,  \* history: whose clock-in was written over by another clock-in
  deactivated,\* history: how often an account was deactivated
  owed,       \* history: who has been concerned since a call's write, without a break
  concerned   \* history: who has been concerned at some time since that write

accountVars == <<user, token, deactivated>>
staffVars == <<manages, certified, owed, concerned>>
scheduleVars == <<skilled, week, seat, reclocked>>
outboxVars == <<notice, mail>>
logVars == <<weekEntry, overtaken>>
auditVars == <<weekEntry, overtaken, wrote>>
vars == <<scope, accountVars, staffVars, scheduleVars, outboxVars, auditVars, now, call>>

-----------------------------------------------------------------------------
(* Types *)

Null == -1
Stamp == Null..MaxNow

Channels == {"IN_APP", "IN_APP_AND_EMAIL"}
User == [row: {"NONE", "ACTIVE", "INACTIVE"}, channel: Channels]
NoUser == [row |-> "NONE", channel |-> "IN_APP"]

\* spent, asOf and born are history: the token that was exchanged for this one, and the
\* deactivations of its owner when the account was read and when the row was created.
Token == [status: {"NONE", "LIVE", "REVOKED", "EXPIRED"}, owner: People \cup {None},
          spent: 0..MaxCalls, asOf: Nat, born: Nat]
NoToken == [status |-> "NONE", owner |-> None, spent |-> 0, asOf |-> 0, born |-> 0]

Seat == [status: {"NONE", "ASSIGNED", "CANCELLED"}, in: Stamp, out: Stamp]

Mail == [job: {"NONE", "WAITING", "ACTIVE", "DONE"}, stalls: 0..MaxStalls]
NoMail == [job |-> "NONE", stalls |-> 0]

Pcs == {"new", "stamp", "write", "issue", "audit", "recipients", "insert", "tell", "done", "dead"}

\* token: the row that was read and is written by its id, a refresh token or a skill;
\* at: the time a clock-in or clock-out will write.
Call == [kind: Kinds \cup {"none"}, pc: Pcs, who: People \cup {None},
         set: Channels \cup {"ACTIVE", "INACTIVE", "NONE"}, token: 0..MaxCalls, asOf: Nat,
         at: 0..MaxNow, to: SUBSET People]
NoCall == [kind |-> "none", pc |-> "new", who |-> None, set |-> "NONE",
           token |-> 0, asOf |-> 0, at |-> 0, to |-> {}]

TypeOK ==
  /\ scope \in Scopes
  /\ user \in [People -> User]
  /\ token \in [Calls -> Token]
  /\ manages \subseteq People /\ certified \subseteq People
  /\ skilled \in [People -> 0..MaxCalls]
  /\ week \in {"NONE", "DRAFT", "PUBLISHED"} /\ weekEntry \in {"NONE", "DRAFT", "PUBLISHED"}
  /\ seat \in [People -> Seat] /\ reclocked \subseteq People
  /\ notice \in [Calls -> [People -> {"NONE", "UNREAD", "READ"}]]
  /\ mail \in [Calls -> [People -> Mail]]
  /\ overtaken \subseteq Calls /\ wrote \subseteq Calls
  /\ now \in 0..MaxNow
  /\ call \in [Calls -> Call]
  /\ deactivated \in [People -> Nat]
  /\ owed \in [Calls -> SUBSET People] /\ concerned \in [Calls -> SUBSET People]

-----------------------------------------------------------------------------
(* The life of a call *)

At(c, kind, pc) == call[c].kind = kind /\ call[c].pc = pc
InFlight(c) == call[c].pc \notin {"new", "done", "dead"}
Noticed(c) == {p \in People : notice[c][p] # "NONE"}

\* JwtStrategy.validate, before every call on one's own account.
Authenticated(p) == user[p].row = "ACTIVE"

\* c is the next call to arrive, if the behaviour makes calls of that kind.
Arrives(c, kind) ==
  /\ kind \in scope.kinds /\ c =< scope.calls
  /\ call[c].pc = "new"
  /\ \A d \in Calls : d < c => call[d].pc # "new"

Resume(c, record) == call' = [call EXCEPT ![c] = record]

\* A finished call keeps its kind only.
Ended(kind, pc) == [NoCall EXCEPT !.kind = kind, !.pc = pc]

Proceed(c, record, pc) ==
  Resume(c, IF pc = "done" THEN Ended(record.kind, "done") ELSE [record EXCEPT !.pc = pc])

-----------------------------------------------------------------------------
(* What follows a write, in the order of the handlers. *)

UnpublishUnaudited ==
  {"create", "update", "setActive", "unassign", "clockIn", "clockOut",
   "approve", "reject", "expire"} \cup (OfficeKinds \ {"unpublish"})

\* Kinds that call audit.record on a connection of its own, after their write; assign
\* passes its transaction.  Profile edits, sign-ins and the staff's side of a swap leave
\* no entry.
Audited ==
  {"create", "update", "setActive", "unassign", "clockIn", "clockOut",
   "approve", "reject", "expire"} \cup OfficeKinds

\* Kinds that read whom to notify after their write, and those that notify the parties
\* they have read already.
LooksUp == {"publish", "unpublish", "accept", "claim", "unassign"}
TellsParties == {"requestSwap", "decline", "cancel", "approve", "reject", "expire"}

MailFirst(kind) ==
  IF kind \in LooksUp THEN "recipients" ELSE IF kind \in TellsParties THEN "tell" ELSE "done"

Notifying(kind) ==
  IF kind \in LooksUp THEN "recipients" ELSE IF kind \in TellsParties THEN "insert" ELSE "done"

AfterWrite(kind) == IF kind \in Audited \ {"expire"} THEN "audit" ELSE Notifying(kind)

\* expireDropIfStillPending notifies first and writes its audit entry last.
AfterAudit(kind) == IF kind = "expire" THEN "done" ELSE Notifying(kind)
AfterTell(kind) == IF kind = "expire" THEN "audit" ELSE "done"

\* record: the call as it goes on, with the write of its kind committed in this step.
Committed(c, record) ==
  /\ wrote' = wrote \cup {c}
  /\ Proceed(c, record, AfterWrite(record.kind))

\* An update by id whose row is gone, or a create that meets a unique key: the call
\* ends with an error and has written nothing.
Fails(c) ==
  /\ Resume(c, Ended(call[c].kind, "dead"))
  /\ UNCHANGED <<scope, accountVars, staffVars, scheduleVars, outboxVars, auditVars, now>>

\* A call goes on to its write with what it has read.
Reads(c, record) ==
  /\ Resume(c, record)
  /\ UNCHANGED <<scope, accountVars, staffVars, scheduleVars, outboxVars, auditVars, now>>

\* audit.record on the application's own connection.  Of what the entry says, only the
\* week's afterState is kept: the row as this call wrote it.
WeekAfter(kind) ==
  CASE kind = "publish" -> "PUBLISHED"
    [] kind \in {"open", "unpublish"} -> "DRAFT"
    [] OTHER -> weekEntry

Audit(c) ==
  /\ call[c].pc = "audit"
  /\ weekEntry' = WeekAfter(call[c].kind)
  /\ Proceed(c, call[c], AfterAudit(call[c].kind))
  /\ UNCHANGED <<scope, accountVars, staffVars, scheduleVars, outboxVars, overtaken, wrote, now>>

\* Calls that have changed the week and not yet written their entry of it.
Unlogged == {c \in Calls : call[c].kind \in {"open", "publish", "unpublish"} /\ call[c].pc = "audit"}

WeekBecomes(state) == week' = state /\ overtaken' = Unlogged

-----------------------------------------------------------------------------
Init ==
  /\ scope \in Scopes
  /\ user = [p \in People |->
               IF p \notin InitPeople THEN NoUser
               ELSE [row |-> "ACTIVE",
                     channel |-> IF p \in InitByMail THEN "IN_APP_AND_EMAIL" ELSE "IN_APP"]]
  /\ token = [c \in Calls |-> NoToken]
  /\ manages = InitManagers /\ certified = InitCertified
  /\ skilled = [p \in People |-> 0]
  /\ week = IF "open" \in scope.kinds THEN "NONE" ELSE "DRAFT"
  /\ weekEntry = week /\ overtaken = {}
  /\ seat = [p \in People |->
               IF p \in InitWorked THEN [status |-> "CANCELLED", in |-> 0, out |-> 0]
               ELSE [status |-> IF p \in InitSeated THEN "ASSIGNED" ELSE "NONE",
                     in |-> Null, out |-> Null]]
  /\ reclocked = {}
  /\ notice = [c \in Calls |-> [p \in People |-> "NONE"]]
  /\ mail = [c \in Calls |-> [p \in People |-> NoMail]]
  /\ wrote = {}
  /\ now = 0
  /\ call = [c \in Calls |-> NoCall]
  /\ deactivated = [p \in People |-> 0]
  /\ owed = [c \in Calls |-> {}] /\ concerned = [c \in Calls |-> {}]

ASSUME OfficeAssumption ==
  /\ MaxCalls \in Nat /\ MaxNow \in Nat /\ MaxStalls \in Nat
  /\ ShiftStart \in Int /\ ShiftEnd \in Int /\ EarlyClockIn \in Nat /\ CutoffHours \in Nat
  /\ Scopes \subseteq [kinds: SUBSET (Kinds \cup {"markRead", "tick"}), calls: Calls]

ASSUME PeopleAssumption ==
  /\ None \notin People
  /\ InitPeople \subseteq People /\ InitByMail \subseteq InitPeople
  /\ InitManagers \subseteq InitPeople /\ InitCertified \subseteq InitPeople
  /\ InitSeated \subseteq InitPeople /\ InitWorked \subseteq InitPeople
=============================================================================
