----------------------------- MODULE BackOffice -----------------------------
(***************************************************************************)
(* Everything around the schedule, interleaved over one database and the   *)
(* queue of mails, and what it promises about sessions, the time clock,    *)
(* the audit log and notifications.                                        *)
(***************************************************************************)
EXTENDS OfficeHandlers

\* A call dies at an await: the database fails or the process stops.  What it has
\* written stays, and nothing takes the call up again.
Die(c) ==
  /\ Faults /\ InFlight(c)
  /\ Resume(c, Ended(call[c].kind, "dead"))
  /\ overtaken' = IF c \in Unlogged THEN overtaken \cup {c} ELSE overtaken
  /\ UNCHANGED <<scope, accountVars, staffVars, scheduleVars, outboxVars, weekEntry, wrote, now>>

Tick ==
  /\ now < MaxNow
  /\ "tick" \in scope.kinds
  /\ now' = now + 1
  /\ UNCHANGED <<scope, accountVars, staffVars, scheduleVars, outboxVars, auditVars, call>>

-----------------------------------------------------------------------------
AccountStep(c) ==
  CreateUserWrite(c) \/ UpdateUserWrite(c) \/ SetActiveWrite(c)
    \/ RefreshRevoke(c) \/ IssueTokens(c)

OfficeStep(c) ==
  \/ DecertifyWrite(c) \/ RevokeSkillWrite(c)
  \/ OpenWeekWrite(c) \/ UnpublishWrite(c)
  \/ UnassignWrite(c)
  \/ ClockInStamp(c) \/ ClockInWrite(c) \/ ClockOutStamp(c) \/ ClockOutWrite(c)

Aftermath(c) ==
  Audit(c) \/ FindRecipients(c) \/ InsertNotices(c) \/ \E p \in People : Tell(c, p)

CallStep(c) == AccountStep(c) \/ OfficeStep(c) \/ Aftermath(c)

AccountCall(c) ==
  \/ \E p \in People : \/ CreateUserStart(c, p) \/ UpdateUserStart(c, p) \/ SetActiveStart(c, p)
                       \/ UpdateOwnProfile(c, p) \/ LoginStart(c, p)
  \/ \E t \in Calls : RefreshStart(c, t) \/ Logout(c, t)

OfficeCall(c) ==
  \/ OpenWeekStart(c) \/ Publish(c) \/ UnpublishStart(c)
  \/ \E p \in People :
       \/ AssignManager(c, p) \/ UnassignManager(c, p)
       \/ CertifyLocation(c, p) \/ DecertifyStart(c, p) \/ GrantSkill(c, p) \/ RevokeSkillStart(c, p)
       \/ Assign(c, p) \/ UnassignStart(c, p) \/ ClockInStart(c, p) \/ ClockOutStart(c, p)
       \/ AcceptOrClaim(c, p)
       \/ \E q \in People : Resolve(c, p, q)

WorkerStep(c, p) == TakeMail(c, p) \/ CompleteMail(c, p)

Next ==
  \/ \E c \in Calls : CallStep(c) \/ AccountCall(c) \/ OfficeCall(c) \/ Die(c)
  \/ \E c \in Calls : TokenExpires(c)
  \/ \E c \in Calls, p \in People : WorkerStep(c, p) \/ StallMail(c, p) \/ MarkRead(c, p)
  \/ \E p \in People : MarkAllRead(p)
  \/ Tick

Spec == Init /\ [][Next]_vars

\* Node goes on with every call whose await is over, and the mail worker takes what
\* waits in its queue.  Nobody has to call anything.
Fairness ==
  /\ \A c \in Calls : WF_vars(CallStep(c))
  /\ \A c \in Calls, p \in People : WF_vars(WorkerStep(c, p))

FairSpec == Spec /\ Fairness

-----------------------------------------------------------------------------
(* Properties *)

\* An account that was closed has no usable refresh token except from a sign-in or a
\* refresh that had read the account before it was closed and inserted its token after:
\* setActive revokes all the others, and nothing is issued on a read of a closed account.
OnlyLateTokens ==
  \A t \in Calls :
    token[t].status = "LIVE" /\ user[token[t].owner].row = "INACTIVE"
      => /\ token[t].born = deactivated[token[t].owner]
         /\ token[t].asOf < token[t].born

\* A refresh token that was exchanged is spent: however refreshes, sign-outs and
\* failures interleave, a token and the one issued in exchange for it are not both usable.
RotationSpendsToken ==
  \A t \in Calls : token[t].spent # 0 => token[token[t].spent].status = "REVOKED"

\* Whoever has clocked out has clocked in, and no later: however the time goes on between
\* the reads and the writes, with double clock-outs and with rows that are used again with
\* their stamps.  The only clock-in that comes out later than the clock-out is one that
\* found the row without a stamp and wrote over the stamp of another clock-in.
StampsInOrder ==
  \A p \in People :
    seat[p].out # Null => seat[p].in # Null /\ (seat[p].in =< seat[p].out \/ p \in reclocked)

\* "So the audit trail can never drift from what actually happened": the newest entry of the
\* week says what the week is.  As the services write the entry after the change, on a
\* connection of their own, this holds but for a change that is still to be logged and for
\* calls that were overtaken: by another change before they wrote their entry, or by their
\* end.  The next change that overtakes nobody puts the log right again.
LogTellsTheWeek == Unlogged = {} /\ overtaken = {} => weekEntry = week

\* Those who were certified (or managed the location) from a change to the end of its
\* call are notified, and nobody who was not so at any time in between.
RightPeopleTold ==
  \A c \in Calls :
    /\ Noticed(c) \subseteq concerned[c]
    /\ call[c].pc = "done" => owed[c] \subseteq Noticed(c)

\* The in-app notification is the source of truth: a mail is about a change that was
\* written and goes to somebody who finds the notification in the app.
MailHasNotice ==
  \A c \in Calls, p \in People : mail[c][p].job # "NONE" => c \in wrote /\ p \in Noticed(c)

\* The week is created once, however many managers find it missing.
CreatedOnce ==
  \A c, d \in wrote : call[c].kind = "open" /\ call[d].kind = "open" => c = d

\* In the end every call that arrived has ended and every mail has left the queue,
\* whatever the mail server answers and however often the worker stops.
EverythingSettles ==
  <>[]( /\ \A c \in Calls : ~InFlight(c)
        /\ \A c \in Calls, p \in People : mail[c][p].job \in {"NONE", "DONE"} )
=============================================================================
