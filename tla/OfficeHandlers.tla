--------------------------- MODULE OfficeHandlers ---------------------------
(***************************************************************************)
(* The manager's side of the location, the time clock, and what a change   *)
(* sets off: notifications to the people it concerns, and mails for those  *)
(* who want them.  Of the calls on assignments and swap requests, which    *)
(* Scheduling models, this module has what comes after their write.        *)
(***************************************************************************)
EXTENDS AccountHandlers

Editable == week # "PUBLISHED" \/ now < ShiftStart - CutoffHours

-----------------------------------------------------------------------------
(* Whom a change concerns *)

ManagersOnly(kind, who, staff, managers) ==
  CASE kind \in {"publish", "unpublish"} -> staff
    [] kind \in {"accept", "claim"} -> managers
    [] kind = "unassign" -> People

\* Whom a call of this kind looks up.  An unassignment may tell anybody: the parties of the
\* requests it cancels.
Audience(kind, who, staff, managers) ==
  CASE kind \in {"publish", "unpublish"} -> staff
    [] kind \in {"accept", "claim"} -> managers \cup {who}
    [] kind = "unassign" -> People

StillToLookUp(c) == call[c].kind \in LooksUp /\ call[c].pc \in {"audit", "recipients"}

\* Who is certified and who manages become staff and managers.
Restaff(staff, managers) ==
  LET audience(c) == Audience(call[c].kind, call[c].who, staff, managers)
  IN  /\ certified' = staff /\ manages' = managers
      /\ owed' = [c \in Calls |->
                    IF StillToLookUp(c) THEN owed[c] \cap audience(c) ELSE owed[c]]
      /\ concerned' = [c \in Calls |->
                    IF StillToLookUp(c) THEN concerned[c] \cup audience(c) ELSE concerned[c]]

\* From a call's write on, these are the people it concerns.
Concerns(c, sure, possible) ==
  /\ owed' = [owed EXCEPT ![c] = sure]
  /\ concerned' = [concerned EXCEPT ![c] = possible]
  /\ UNCHANGED <<manages, certified>>

-----------------------------------------------------------------------------
(* Managers, certifications and skills *)

\* assignManager and unassignManager write whatever the row was before.
AssignManager(c, p) ==
  /\ Arrives(c, "assignManager") /\ user[p].row # "NONE"
  /\ Restaff(certified, manages \cup {p})
  /\ Committed(c, [NoCall EXCEPT !.kind = "assignManager"])
  /\ UNCHANGED <<scope, accountVars, scheduleVars, outboxVars, logVars, now>>

UnassignManager(c, p) ==
  /\ Arrives(c, "unassignManager")
  /\ Restaff(certified, manages \ {p})
  /\ Committed(c, [NoCall EXCEPT !.kind = "unassignManager"])
  /\ UNCHANGED <<scope, accountVars, scheduleVars, outboxVars, logVars, now>>

\* certifyLocation: an upsert, which clears decertifiedAt of an old row.
CertifyLocation(c, p) ==
  /\ Arrives(c, "certify") /\ user[p].row # "NONE"
  /\ Restaff(certified \cup {p}, manages)
  /\ Committed(c, [NoCall EXCEPT !.kind = "certify"])
  /\ UNCHANGED <<scope, accountVars, scheduleVars, outboxVars, logVars, now>>

DecertifyStart(c, p) ==
  /\ Arrives(c, "decertify") /\ p \in certified
  /\ Reads(c, [NoCall EXCEPT !.kind = "decertify", !.pc = "write", !.who = p])

DecertifyWrite(c) ==
  /\ At(c, "decertify", "write")
  /\ Restaff(certified \ {call[c].who}, manages)
  /\ Committed(c, call[c])
  /\ UNCHANGED <<scope, accountVars, scheduleVars, outboxVars, logVars, now>>

\* An upsert that leaves a row it finds as it is.
GrantSkill(c, p) ==
  /\ Arrives(c, "grantSkill") /\ user[p].row # "NONE"
  /\ skilled' = [skilled EXCEPT ![p] = IF @ = 0 THEN c ELSE @]
  /\ Committed(c, [NoCall EXCEPT !.kind = "grantSkill"])
  /\ UNCHANGED <<scope, accountVars, staffVars, week, seat, reclocked, outboxVars,
                 logVars, now>>

RevokeSkillStart(c, p) ==
  /\ Arrives(c, "revokeSkill") /\ skilled[p] # 0
  /\ Reads(c, [NoCall EXCEPT !.kind = "revokeSkill", !.pc = "write", !.who = p,
                             !.token = skilled[p]])

\* The row that was read is deleted by its id.  If another call has deleted it the delete
\* fails, also when the skill was granted anew since.
RevokeSkillWrite(c) ==
  /\ At(c, "revokeSkill", "write")
  /\ \/ /\ skilled[call[c].who] = call[c].token
        /\ skilled' = [skilled EXCEPT ![call[c].who] = 0]
        /\ Committed(c, call[c])
        /\ UNCHANGED <<scope, accountVars, staffVars, week, seat, reclocked, outboxVars,
                       logVars, now>>
     \/ skilled[call[c].who] # call[c].token /\ Fails(c)

-----------------------------------------------------------------------------
(* The week *)

\* getOrCreate: looked up, then created; location and start date are a unique key.
OpenWeekStart(c) ==
  /\ Arrives(c, "open") /\ week = "NONE"
  /\ Reads(c, [NoCall EXCEPT !.kind = "open", !.pc = "write"])

OpenWeekAgain(c) ==
  /\ At(c, "open", "write")
  /\ WeekBecomes("DRAFT")
  /\ Committed(c, call[c])
  /\ UNCHANGED <<scope, accountVars, staffVars, skilled, seat, reclocked, outboxVars,
                 weekEntry, now>>

OpenWeekWrite(c) ==
  /\ At(c, "open", "write")
  /\ \/ /\ week = "NONE"
        /\ WeekBecomes("DRAFT")
        /\ Committed(c, call[c])
        /\ UNCHANGED <<scope, accountVars, staffVars, skilled, seat, reclocked, outboxVars,
                       weekEntry, now>>
     \/ week # "NONE" /\ Fails(c)

Publish(c) ==
  /\ Arrives(c, "publish") /\ week # "NONE"
  /\ WeekBecomes("PUBLISHED")
  /\ Concerns(c, certified, certified)
  /\ Committed(c, [NoCall EXCEPT !.kind = "publish"])
  /\ UNCHANGED <<scope, accountVars, skilled, seat, reclocked, outboxVars, weekEntry, now>>

UnpublishStart(c) ==
  /\ Arrives(c, "unpublish") /\ week # "NONE" /\ Editable
  /\ Reads(c, [NoCall EXCEPT !.kind = "unpublish", !.pc = "write"])

UnpublishWrite(c) ==
  /\ At(c, "unpublish", "write")
  /\ WeekBecomes("DRAFT")
  /\ Concerns(c, certified, certified)
  /\ Committed(c, call[c])
  /\ UNCHANGED <<scope, accountVars, skilled, seat, reclocked, outboxVars, weekEntry, now>>

-----------------------------------------------------------------------------
(* Seats and the time clock *)

\* assign: a row that was cancelled is used again and keeps its stamps; the audit entry
\* is part of the transaction.  The cutoff and the engine, which are asked before (see
\* AssignStart of Scheduling), may have changed their minds by now and stop nothing here.
Assign(c, p) ==
  /\ Arrives(c, "assign") /\ user[p].row # "NONE"
  /\ seat[p].status # "ASSIGNED"
  /\ seat' = [seat EXCEPT ![p].status = "ASSIGNED"]
  /\ Committed(c, [NoCall EXCEPT !.kind = "assign"])
  /\ UNCHANGED <<scope, accountVars, staffVars, skilled, week, reclocked, outboxVars,
                 logVars, now>>

UnassignStart(c, p) ==
  /\ Arrives(c, "unassign") /\ seat[p].status = "ASSIGNED" /\ Editable
  /\ Reads(c, [NoCall EXCEPT !.kind = "unassign", !.pc = "write", !.who = p])

UnassignWrite(c) ==
  /\ At(c, "unassign", "write")
  /\ seat' = [seat EXCEPT ![call[c].who].status = "CANCELLED"]
  /\ Concerns(c, {}, People)
  /\ Committed(c, call[c])
  /\ UNCHANGED <<scope, accountVars, skilled, week, reclocked, outboxVars, logVars, now>>

\* clockIn and clockOut take the time when the row they have read has come back, and
\* write it by the id of that row, whatever has happened to the row since.
ClockInStart(c, p) ==
  /\ Arrives(c, "clockIn") /\ Authenticated(p)
  /\ seat[p].status = "ASSIGNED" /\ seat[p].in = Null
  /\ Reads(c, [NoCall EXCEPT !.kind = "clockIn", !.pc = "stamp", !.who = p])

InClockInWindow == ShiftStart - EarlyClockIn =< now /\ now =< ShiftEnd

ClockInRoundsUp(c) ==
  /\ At(c, "clockIn", "stamp")
  /\ \/ /\ InClockInWindow
        /\ Reads(c, [call[c] EXCEPT !.pc = "write",
                                    !.at = IF now < ShiftStart THEN ShiftStart ELSE now])
     \/ ~InClockInWindow /\ Fails(c)

ClockInStamp(c) ==
  /\ At(c, "clockIn", "stamp")
  /\ \/ InClockInWindow /\ Reads(c, [call[c] EXCEPT !.pc = "write", !.at = now])
     \/ ~InClockInWindow /\ Fails(c)

ClockInWrite(c) ==
  LET p == call[c].who
  IN  /\ At(c, "clockIn", "write")
      /\ seat' = [seat EXCEPT ![p].in = call[c].at]
      /\ reclocked' = IF seat[p].in = Null THEN reclocked ELSE reclocked \cup {p}
      /\ Committed(c, call[c])
      /\ UNCHANGED <<scope, accountVars, staffVars, skilled, week, outboxVars,
                     logVars, now>>

ClockOutStart(c, p) ==
  /\ Arrives(c, "clockOut") /\ Authenticated(p)
  /\ seat[p].status = "ASSIGNED" /\ seat[p].in # Null /\ seat[p].out = Null
  /\ Reads(c, [NoCall EXCEPT !.kind = "clockOut", !.pc = "stamp", !.who = p])

ClockOutStamp(c) ==
  /\ At(c, "clockOut", "stamp")
  /\ Reads(c, [call[c] EXCEPT !.pc = "write", !.at = now])

ClockOutWrite(c) ==
  /\ At(c, "clockOut", "write")
  /\ seat' = [seat EXCEPT ![call[c].who].out = call[c].at]
  /\ Committed(c, call[c])
  /\ UNCHANGED <<scope, accountVars, staffVars, skilled, week, reclocked, outboxVars,
                 logVars, now>>

-----------------------------------------------------------------------------
(* Swap and drop requests, from their write on *)

\* Whom the calls on a request of p's, with counterparty q, notify without looking
\* anybody up.  A cancellation is told to the parties who did not make it, and to both
\* when an administrator makes it.
Told(kind, p, q) ==
  CASE kind = "requestSwap" -> {{q}}
    [] kind \in {"decline", "expire"} -> {{p}}
    [] kind \in {"approve", "reject"} -> {{p, q}}
    [] kind = "cancel" -> {{p}, {q}, {p, q}, {}}

\* acceptSwap, claimDrop: the managers of the location are looked up afterwards.
AcceptOrClaim(c, p) ==
  /\ \E kind \in {"accept", "claim"} :
       /\ Arrives(c, kind)
       /\ Committed(c, [NoCall EXCEPT !.kind = kind, !.who = p])
  /\ Concerns(c, manages \cup {p}, manages \cup {p})
  /\ UNCHANGED <<scope, accountVars, scheduleVars, outboxVars, logVars, now>>

Resolve(c, p, q) ==
  /\ p # q /\ \A x \in {p, q} : user[x].row # "NONE"
  /\ \E kind \in TellsParties : \E to \in Told(kind, p, q) :
       /\ Arrives(c, kind)
       /\ Concerns(c, to, to)
       /\ Committed(c, [NoCall EXCEPT !.kind = kind, !.to = to])
  /\ UNCHANGED <<scope, accountVars, scheduleVars, outboxVars, logVars, now>>

-----------------------------------------------------------------------------
(* Notifications and mail *)

\* cancelPendingSwapsForAssignments: the holder of the seat and the other parties of the
\* requests that refer to it; or nobody, if no request is pending.
Cancelled(p) == {{}} \cup {{p} \cup others : others \in SUBSET {q \in People : user[q].row # "NONE"}}

FindRecipients(c) ==
  LET record == call[c]
      audience == Audience(record.kind, record.who, certified, manages)
  IN  /\ record.pc = "recipients"
      /\ \E to \in IF record.kind = "unassign" THEN Cancelled(record.who) ELSE {audience} :
           Resume(c, [record EXCEPT !.pc = "insert", !.to = to])
      /\ UNCHANGED <<scope, accountVars, staffVars, scheduleVars, outboxVars, auditVars, now>>

\* NotificationsService.createMany and create: all rows at once, then one user after the
\* other.
InsertNotices(c) ==
  /\ call[c].pc = "insert"
  /\ notice' = [notice EXCEPT ![c] = [p \in People |->
                  IF p \in call[c].to THEN "UNREAD" ELSE notice[c][p]]]
  /\ Proceed(c, call[c], IF call[c].to = {} THEN AfterTell(call[c].kind) ELSE "tell")
  /\ UNCHANGED <<scope, accountVars, staffVars, scheduleVars, mail, auditVars, now>>

\* maybeSendEmail for one user, by the channel of the moment.
Tell(c, p) ==
  LET rest == call[c].to \ {p}
  IN  /\ call[c].pc = "tell" /\ p \in call[c].to
      /\ mail' = IF user[p].channel = "IN_APP_AND_EMAIL" THEN [mail EXCEPT ![c][p].job = "WAITING"] ELSE mail
      /\ Proceed(c, [call[c] EXCEPT !.to = rest],
                 IF rest = {} THEN AfterTell(call[c].kind) ELSE "tell")
      /\ UNCHANGED <<scope, accountVars, staffVars, scheduleVars, notice, auditVars, now>>

OnlyMail == UNCHANGED <<scope, accountVars, staffVars, scheduleVars, notice, auditVars, now, call>>

TakeMail(c, p) ==
  /\ mail[c][p].job = "WAITING"
  /\ mail' = [mail EXCEPT ![c][p].job = "ACTIVE"]
  /\ OnlyMail

RetryMail(c, p) ==
  /\ mail[c][p].job = "ACTIVE"
  /\ \E state \in {"WAITING", "DONE"} : mail' = [mail EXCEPT ![c][p].job = state]
  /\ OnlyMail

\* MailService catches what the mail server answers: the job is completed either way,
\* and the attempts the queue allows are never used.
CompleteMail(c, p) ==
  /\ mail[c][p].job = "ACTIVE"
  /\ mail' = [mail EXCEPT ![c][p].job = "DONE"]
  /\ OnlyMail

StallAtLimit(c, p) ==
  /\ Faults /\ mail[c][p].job = "ACTIVE"
  /\ mail' = [mail EXCEPT ![c][p] =
                IF @.stalls =< MaxStalls THEN [job |-> "WAITING", stalls |-> @.stalls + 1]
                ELSE [@ EXCEPT !.job = "DONE"]]
  /\ OnlyMail

\* The worker stops with the job in hand; the queue hands it out again, or gives it up.
StallMail(c, p) ==
  /\ Faults /\ mail[c][p].job = "ACTIVE"
  /\ mail' = [mail EXCEPT ![c][p] =
                IF @.stalls < MaxStalls THEN [job |-> "WAITING", stalls |-> @.stalls + 1]
                ELSE [@ EXCEPT !.job = "DONE"]]
  /\ OnlyMail

MarkRead(c, p) ==
  /\ "markRead" \in scope.kinds /\ Authenticated(p) /\ notice[c][p] = "UNREAD"
  /\ notice' = [notice EXCEPT ![c][p] = "READ"]
  /\ UNCHANGED <<scope, accountVars, staffVars, scheduleVars, mail, auditVars, now, call>>

MarkAllRead(p) ==
  /\ "markRead" \in scope.kinds /\ Authenticated(p)
  /\ notice' = [c \in Calls |->
                  [notice[c] EXCEPT ![p] = IF @ = "UNREAD" THEN "READ" ELSE @]]
  /\ UNCHANGED <<scope, accountVars, staffVars, scheduleVars, mail, auditVars, now, call>>
=============================================================================
