-------------------------- MODULE BackOfficeProofs --------------------------
(***************************************************************************)
(* Proofs about BackOffice, for every number of calls and people, every    *)
(* mix of operations and with any call dying at any await.                 *)
(***************************************************************************)
EXTENDS BackOffice, TLAPS

-----------------------------------------------------------------------------
(* Call records *)

\* The bounds are there, so that zero is a token, a deactivation count and a time.
LEMMA Zeros == 0 \in 0..MaxCalls /\ 0 \in 0..MaxNow /\ 0 \in 0..MaxStalls /\ 0 \in Nat
BY OfficeAssumption

LEMMA NoCallTyped == NoCall \in Call
BY Zeros DEF NoCall, Call, Pcs, Kinds

LEMMA NoCallFields ==
  NoCall.pc = "new" /\ NoCall.to = {} /\ NoCall.kind = "none" /\ NoCall.token = 0
BY DEF NoCall

LEMMA PcsOfPlans ==
  ASSUME NEW kind
  PROVE  AfterWrite(kind) \in Pcs /\ AfterAudit(kind) \in Pcs /\ AfterTell(kind) \in Pcs
BY DEF AfterWrite, AfterAudit, AfterTell, Notifying, Pcs

LEMMA EndedTyped ==
  ASSUME NEW kind \in Kinds \cup {"none"}, NEW pc \in Pcs
  PROVE  /\ Ended(kind, pc) \in Call
         /\ Ended(kind, pc).kind = kind /\ Ended(kind, pc).pc = pc
BY NoCallTyped DEF Ended, Call

LEMMA ResumeTyped ==
  ASSUME TypeOK, NEW c \in Calls, NEW record \in Call, Resume(c, record)
  PROVE  /\ call' \in [Calls -> Call]
         /\ call'[c] = record
         /\ \A d \in Calls \ {c} : call'[d] = call[d]
BY DEF TypeOK, Resume

\* Where a call stands after Proceed: it has the place asked for and, unless it is done,
\* its local variables.
LEMMA ProceedTyped ==
  ASSUME TypeOK, NEW c \in Calls, NEW record \in Call, NEW pc \in Pcs,
         Proceed(c, record, pc)
  PROVE  /\ call' \in [Calls -> Call]
         /\ \A d \in Calls \ {c} : call'[d] = call[d]
         /\ call'[c].kind = record.kind /\ call'[c].pc = pc
         /\ pc # "done" => call'[c] = [record EXCEPT !.pc = pc]
<1>1. record.kind \in Kinds \cup {"none"} /\ "done" \in Pcs
  BY DEF Call, Pcs
<1>2. /\ Ended(record.kind, "done") \in Call
      /\ Ended(record.kind, "done").kind = record.kind
      /\ Ended(record.kind, "done").pc = "done"
  BY <1>1, EndedTyped
<1>3. /\ [record EXCEPT !.pc = pc] \in Call
      /\ [record EXCEPT !.pc = pc].kind = record.kind
      /\ [record EXCEPT !.pc = pc].pc = pc
  BY DEF Call
<1>4. CASE pc = "done"
  BY <1>2, <1>4, ResumeTyped DEF Proceed
<1>5. CASE pc # "done"
  BY <1>3, <1>5, ResumeTyped DEF Proceed
<1> QED BY <1>4, <1>5

LEMMA CommittedTyped ==
  ASSUME TypeOK, NEW c \in Calls, NEW record \in Call, Committed(c, record)
  PROVE  /\ call' \in [Calls -> Call] /\ wrote' = wrote \cup {c} /\ wrote' \subseteq Calls
         /\ \A d \in Calls \ {c} : call'[d] = call[d]
         /\ call'[c].kind = record.kind /\ call'[c].pc = AfterWrite(record.kind)
         /\ AfterWrite(record.kind) # "done"
              => call'[c] = [record EXCEPT !.pc = AfterWrite(record.kind)]
<1>1. AfterWrite(record.kind) \in Pcs /\ Proceed(c, record, AfterWrite(record.kind))
  BY PcsOfPlans DEF Committed
<1>2. wrote' = wrote \cup {c} /\ wrote' \subseteq Calls
  BY DEF Committed, TypeOK
<1> QED BY <1>1, <1>2, ProceedTyped

\* The records a call can start with.
LEMMA FreshCalls ==
  ASSUME NEW kind \in Kinds, NEW p \in People, NEW set \in Channels \cup {"ACTIVE", "INACTIVE"},
         NEW t \in 0..MaxCalls, NEW n \in Nat, NEW at \in 0..MaxNow, NEW to \in SUBSET People,
         NEW pc \in Pcs
  PROVE  /\ [NoCall EXCEPT !.kind = kind] \in Call
         /\ [NoCall EXCEPT !.kind = kind, !.pc = pc] \in Call
         /\ [NoCall EXCEPT !.kind = kind, !.who = p] \in Call
         /\ [NoCall EXCEPT !.kind = kind, !.to = to] \in Call
         /\ [NoCall EXCEPT !.kind = kind, !.pc = pc, !.who = p] \in Call
         /\ [NoCall EXCEPT !.kind = kind, !.pc = pc, !.who = p, !.set = set] \in Call
         /\ [NoCall EXCEPT !.kind = kind, !.pc = pc, !.who = p, !.at = at] \in Call
         /\ [NoCall EXCEPT !.kind = kind, !.pc = pc, !.who = p, !.asOf = n] \in Call
         /\ [NoCall EXCEPT !.kind = kind, !.pc = pc, !.who = p, !.token = t, !.asOf = n] \in Call
<1> USE NoCallTyped DEF Call
<1>1. [NoCall EXCEPT !.kind = kind] \in Call
  OBVIOUS
<1>2. [NoCall EXCEPT !.kind = kind, !.pc = pc] \in Call
  OBVIOUS
<1>3. [NoCall EXCEPT !.kind = kind, !.who = p] \in Call
  OBVIOUS
<1>4. [NoCall EXCEPT !.kind = kind, !.to = to] \in Call
  OBVIOUS
<1>5. [NoCall EXCEPT !.kind = kind, !.pc = pc, !.who = p] \in Call
  OBVIOUS
<1>6. [NoCall EXCEPT !.kind = kind, !.pc = pc, !.who = p, !.set = set] \in Call
  OBVIOUS
<1>7. [NoCall EXCEPT !.kind = kind, !.pc = pc, !.who = p, !.at = at] \in Call
  OBVIOUS
<1>8. [NoCall EXCEPT !.kind = kind, !.pc = pc, !.who = p, !.asOf = n] \in Call
  OBVIOUS
<1>9. [NoCall EXCEPT !.kind = kind, !.pc = pc, !.who = p, !.token = t, !.asOf = n] \in Call
  OBVIOUS
<1> QED BY <1>1, <1>2, <1>3, <1>4, <1>5, <1>6, <1>7, <1>8, <1>9 DEF Pcs

-----------------------------------------------------------------------------
(* Types.  TypeOK is not inductive: what a call writes is well-typed because of what the   *)
(* call has read when it started.                                                          *)

SetIsRow(c) == At(c, "setActive", "write") => call[c].set \in {"ACTIVE", "INACTIVE"}
SetIsChannel(c) ==
  call[c].pc = "write" /\ call[c].kind \in {"create", "update"} => call[c].set \in Channels
SessionHasUser(c) ==
  /\ call[c].pc = "issue" => call[c].who \in People /\ call[c].kind \in {"login", "refresh"}
  /\ At(c, "refresh", "write") => call[c].who \in People /\ call[c].token \in Calls
LookupHasUser(c) ==
  /\ call[c].pc = "recipients" => call[c].kind \in LooksUp
  /\ call[c].pc \in {"stamp", "write", "audit", "recipients"}
       => \/ call[c].kind \notin {"accept", "claim", "unassign", "clockIn", "clockOut"}
          \/ call[c].who \in People
TokenHasUser(t) == token[t].status # "NONE" => token[t].owner \in People
RefreshOfRow(c) == At(c, "refresh", "write") => token[call[c].token].status # "NONE"

ReadsMakeSense ==
  /\ \A c \in Calls : SetIsRow(c) /\ SetIsChannel(c) /\ SessionHasUser(c) /\ LookupHasUser(c)
  /\ \A t \in Calls : TokenHasUser(t) /\ RefreshOfRow(t)

TypeInv == TypeOK /\ ReadsMakeSense

LEMMA ReadsTyped ==
  ASSUME TypeOK, NEW c \in Calls, NEW record \in Call, Reads(c, record)
  PROVE  TypeOK'
<1>1. call' \in [Calls -> Call]
  BY ResumeTyped DEF Reads
<1> QED BY <1>1 DEF Reads, TypeOK, accountVars, staffVars, scheduleVars, outboxVars, auditVars

LEMMA FailsTyped ==
  ASSUME TypeOK, NEW c \in Calls, Fails(c)
  PROVE  TypeOK'
<1>1. Ended(call[c].kind, "dead") \in Call
  BY EndedTyped DEF TypeOK, Call, Pcs
<1>2. call' \in [Calls -> Call]
  BY <1>1, ResumeTyped DEF Fails
<1> QED BY <1>2 DEF Fails, TypeOK, accountVars, staffVars, scheduleVars, outboxVars, auditVars

LEMMA InitTyped == Init => TypeInv
<1> SUFFICES ASSUME Init PROVE TypeInv
  OBVIOUS
<1>1. user \in [People -> User]
  BY DEF Init, User, NoUser, Channels
<1>2. token \in [Calls -> Token]
  BY Zeros DEF Init, Token, NoToken
<1>3. seat \in [People -> Seat]
  BY OfficeAssumption DEF Init, Seat, Stamp, Null
<1>4. notice \in [Calls -> [People -> {"NONE", "UNREAD", "READ"}]]
  BY DEF Init
<1>5. mail \in [Calls -> [People -> Mail]]
  BY Zeros DEF Init, Mail, NoMail
<1>s. skilled \in [People -> 0..MaxCalls]
  BY Zeros DEF Init
<1>6. call \in [Calls -> Call]
  BY NoCallTyped DEF Init
<1>7. TypeOK
  BY <1>1, <1>2, <1>3, <1>4, <1>5, <1>6, <1>s, PeopleAssumption, Zeros DEF Init, TypeOK
<1>8. ReadsMakeSense
  BY NoCallFields DEF Init, ReadsMakeSense, SetIsRow, SetIsChannel, SessionHasUser, LookupHasUser,
                     TokenHasUser, RefreshOfRow, At, NoToken
<1> QED BY <1>7, <1>8 DEF TypeInv

LEMMA RevokedTyped ==
  ASSUME NEW t \in Token
  PROVE  Revoked(t) \in Token /\ Revoked(t).owner = t.owner /\ Revoked(t).status = "REVOKED"
BY DEF Revoked, Token

LEMMA RevokeAllTyped ==
  ASSUME TypeOK, NEW p \in People \cup {None}
  PROVE  /\ RevokeAllOf(p) \in [Calls -> Token]
         /\ \A t \in Calls : /\ RevokeAllOf(p)[t] = token[t] \/ RevokeAllOf(p)[t] = Revoked(token[t])
                             /\ token[t].owner = p => RevokeAllOf(p)[t].status # "LIVE"
                             /\ token[t].status = "NONE" => RevokeAllOf(p)[t] = token[t]
<1> USE DEF TypeOK
<1>1. RevokeAllOf(p) \in [Calls -> Token]
  BY RevokedTyped DEF RevokeAllOf
<1>2. ASSUME NEW t \in Calls
      PROVE  /\ RevokeAllOf(p)[t] = token[t] \/ RevokeAllOf(p)[t] = Revoked(token[t])
             /\ token[t].owner = p => RevokeAllOf(p)[t].status # "LIVE"
             /\ token[t].status = "NONE" => RevokeAllOf(p)[t] = token[t]
  BY RevokedTyped DEF RevokeAllOf, Unrevoked
<1> QED BY <1>1, <1>2

LEMMA AccountsTyped ==
  ASSUME TypeInv, NEW c \in Calls, AccountStep(c)
  PROVE  TypeOK'
<1> USE DEF TypeInv
<1>0. call[c] \in Call /\ call[c].who \in People \cup {None} /\ call[c].token \in 0..MaxCalls
      /\ call[c].asOf \in Nat
  BY DEF Call, TypeOK
<1>1. CASE CreateUserWrite(c)
  <2>1. CASE Fails(c)
    BY <2>1, FailsTyped
  <2>2. CASE ~Fails(c)
    <3>0. [row |-> "ACTIVE", channel |-> call[c].set] \in User
      BY <1>1 DEF CreateUserWrite, User, ReadsMakeSense, SetIsChannel, At
    <3>1. user' \in [People -> User]
      BY <1>1, <2>2, <3>0 DEF CreateUserWrite, TypeOK
    <3> QED BY <1>1, <1>0, <2>2, <3>1, CommittedTyped
       DEF CreateUserWrite, unlessAccounts, staffVars, scheduleVars, outboxVars, logVars, TypeOK
  <2> QED BY <2>1, <2>2
<1>2. CASE UpdateUserWrite(c)
  <2>1. user' \in [People -> User]
    BY <1>2, <1>0 DEF UpdateUserWrite, User, TypeOK, ReadsMakeSense, SetIsChannel, At
  <2> QED BY <1>2, <1>0, <2>1, CommittedTyped
     DEF UpdateUserWrite, unlessAccounts, staffVars, scheduleVars, outboxVars, logVars, TypeOK
<1>3. CASE SetActiveWrite(c)
  <2>1. user' \in [People -> User]
    BY <1>3, <1>0 DEF SetActiveWrite, User, TypeOK, ReadsMakeSense, SetIsRow
  <2>2. token' \in [Calls -> Token]
    BY <1>0, <1>3, RevokeAllTyped DEF SetActiveWrite, TypeOK
  <2>3. deactivated' \in [People -> Nat]
    <3>1. \A p \in People : deactivated[p] \in Nat /\ deactivated[p] + 1 \in Nat
      BY DEF TypeOK
    <3> DEFINE more(x) == [deactivated EXCEPT ![x] = @ + 1]
    <3>2. more(call[c].who) \in [People -> Nat]
      BY <3>1 DEF TypeOK
    <3> QED BY <1>3, <3>2 DEF SetActiveWrite, TypeOK
  <2> QED BY <1>3, <1>0, <2>1, <2>2, <2>3, CommittedTyped
     DEF SetActiveWrite, unlessAccounts, staffVars, scheduleVars, outboxVars, logVars, TypeOK
<1>4. CASE RefreshRevoke(c)
  <2>1. token' \in [Calls -> Token]
    BY <1>4, RevokedTyped DEF RefreshRevoke, TypeOK
  <2>2. [call[c] EXCEPT !.pc = "issue"] \in Call
    BY <1>0 DEF Call, Pcs
  <2>3. call' \in [Calls -> Call]
    BY <1>4, <2>2, ResumeTyped DEF RefreshRevoke
  <2> QED BY <1>4, <2>1, <2>3
     DEF RefreshRevoke, unlessAccounts, staffVars, scheduleVars, outboxVars, logVars, TypeOK
<1>5. CASE IssueTokens(c)
  <2>1. call[c].who \in People
    BY <1>5 DEF IssueTokens, ReadsMakeSense, SessionHasUser
  <2>2. token' \in [Calls -> Token]
    BY <1>0, <1>5, <2>1 DEF IssueTokens, Token, TypeOK
  <2> QED BY <1>5, <1>0, <2>2, CommittedTyped
     DEF IssueTokens, unlessAccounts, staffVars, scheduleVars, outboxVars, logVars, TypeOK
<1> QED BY <1>1, <1>2, <1>3, <1>4, <1>5 DEF AccountStep

LEMMA AudienceTyped ==
  ASSUME TypeInv, NEW c \in Calls, call[c].kind \in LooksUp, call[c].pc \in {"audit", "recipients"},
         NEW staff \in SUBSET People, NEW managers \in SUBSET People
  PROVE  Audience(call[c].kind, call[c].who, staff, managers) \subseteq People
BY DEF LooksUp, Audience, TypeInv, ReadsMakeSense, LookupHasUser

LEMMA RestaffTyped ==
  ASSUME TypeInv, NEW staff \in SUBSET People, NEW managers \in SUBSET People,
         Restaff(staff, managers)
  PROVE  /\ manages' \subseteq People /\ certified' \subseteq People
         /\ owed' \in [Calls -> SUBSET People] /\ concerned' \in [Calls -> SUBSET People]
<1> DEFINE audience(c) == Audience(call[c].kind, call[c].who, staff, managers)
<1>1. ASSUME NEW c \in Calls, StillToLookUp(c)
      PROVE  audience(c) \subseteq People
  BY <1>1, AudienceTyped DEF StillToLookUp
<1> HIDE DEF audience
<1>2. /\ certified' = staff /\ manages' = managers
      /\ owed' = [c \in Calls |->
                    IF StillToLookUp(c) THEN owed[c] \cap audience(c) ELSE owed[c]]
      /\ concerned' = [c \in Calls |->
                    IF StillToLookUp(c) THEN concerned[c] \cup audience(c) ELSE concerned[c]]
  BY DEF Restaff, audience
<1> QED BY <1>1, <1>2 DEF TypeOK, TypeInv

LEMMA ConcernsTyped ==
  ASSUME TypeOK, NEW c \in Calls, NEW sure \in SUBSET People, NEW possible \in SUBSET People,
         Concerns(c, sure, possible)
  PROVE  /\ manages' = manages /\ certified' = certified
         /\ owed' \in [Calls -> SUBSET People] /\ concerned' \in [Calls -> SUBSET People]
BY DEF Concerns, TypeOK

LEMMA OfficeTyped ==
  ASSUME TypeInv, NEW c \in Calls, OfficeStep(c)
  PROVE  TypeOK'
<1> USE DEF TypeInv
<1>0. call[c] \in Call /\ call[c].at \in 0..MaxNow /\ call[c].at \in Stamp
  BY OfficeAssumption DEF Call, TypeOK, Stamp, Null
<1>1. CASE DecertifyWrite(c)
  <2>1. certified \ {call[c].who} \in SUBSET People /\ manages \in SUBSET People
    BY DEF TypeOK
  <2> QED BY <1>1, <1>0, <2>1, CommittedTyped, RestaffTyped
     DEF DecertifyWrite, accountVars, scheduleVars, outboxVars, logVars, TypeOK
<1>2. CASE RevokeSkillWrite(c)
  <2>1. CASE Fails(c)
    BY <2>1, FailsTyped
  <2>2. CASE ~Fails(c)
    <3>1. skilled' \in [People -> 0..MaxCalls]
      BY <1>2, <2>2, Zeros DEF RevokeSkillWrite, TypeOK
    <3> QED BY <1>2, <1>0, <2>2, <3>1, CommittedTyped
       DEF RevokeSkillWrite, accountVars, staffVars, outboxVars, logVars, TypeOK
  <2> QED BY <2>1, <2>2
<1>3. CASE OpenWeekWrite(c)
  <2>1. CASE Fails(c)
    BY <2>1, FailsTyped
  <2> QED BY <1>3, <1>0, <2>1, CommittedTyped
     DEF OpenWeekWrite, WeekBecomes, Unlogged, accountVars, staffVars, outboxVars, TypeOK
<1>4. CASE UnpublishWrite(c)
  <2>1. certified \in SUBSET People
    BY DEF TypeOK
  <2> QED BY <1>4, <1>0, <2>1, CommittedTyped, ConcernsTyped
     DEF UnpublishWrite, WeekBecomes, Unlogged, accountVars, outboxVars, TypeOK
<1>5. CASE UnassignWrite(c)
  <2>1. seat' \in [People -> Seat]
    BY <1>5 DEF UnassignWrite, TypeOK, Seat
  <2> QED BY <1>5, <1>0, <2>1, CommittedTyped, ConcernsTyped
     DEF UnassignWrite, accountVars, outboxVars, logVars, TypeOK
<1>6. CASE ClockInWrite(c)
  <2>1. seat' \in [People -> Seat] /\ reclocked' \subseteq People
    BY <1>0, <1>6 DEF ClockInWrite, TypeOK, Seat, ReadsMakeSense, LookupHasUser, At
  <2> QED BY <1>6, <1>0, <2>1, CommittedTyped
     DEF ClockInWrite, accountVars, staffVars, outboxVars, logVars, TypeOK
<1>7. CASE ClockOutWrite(c)
  <2>1. seat' \in [People -> Seat]
    BY <1>0, <1>7 DEF ClockOutWrite, TypeOK, Seat
  <2> QED BY <1>7, <1>0, <2>1, CommittedTyped
     DEF ClockOutWrite, accountVars, staffVars, outboxVars, logVars, TypeOK
<1>8. CASE ClockInStamp(c) \/ ClockOutStamp(c)
  <2>1. CASE Fails(c)
    BY <2>1, FailsTyped
  <2>2. [call[c] EXCEPT !.pc = "write", !.at = now] \in Call
    BY <1>0 DEF Call, Pcs, TypeOK
  <2>3. Fails(c) \/ Reads(c, [call[c] EXCEPT !.pc = "write", !.at = now])
    BY <1>8 DEF ClockInStamp, ClockOutStamp
  <2> QED BY <2>1, <2>2, <2>3, ReadsTyped
<1> QED BY <1>1, <1>2, <1>3, <1>4, <1>5, <1>6, <1>7, <1>8 DEF OfficeStep

LEMMA MailMoves ==
  ASSUME TypeOK, NEW c \in Calls, NEW p \in People, NEW job \in {"WAITING", "ACTIVE", "DONE"}
  PROVE  /\ mail[c][p] \in Mail
         /\ [mail EXCEPT ![c][p].job = job] \in [Calls -> [People -> Mail]]
<1>1. mail[c][p] \in Mail
  BY DEF TypeOK
<1>2. ASSUME NEW m \in Mail PROVE [m EXCEPT !.job = job] \in Mail
  BY DEF Mail
<1> QED BY <1>1, <1>2 DEF TypeOK

LEMMA AftermathTyped ==
  ASSUME TypeInv, NEW c \in Calls, Aftermath(c)
  PROVE  TypeOK'
<1> USE DEF TypeInv
<1>0. call[c] \in Call /\ call[c].to \in SUBSET People
  BY DEF Call, TypeOK
<1>1. CASE Audit(c)
  <2>1. call' \in [Calls -> Call]
    BY <1>0, <1>1, ProceedTyped, PcsOfPlans DEF Audit
  <2>2. weekEntry' \in {"NONE", "DRAFT", "PUBLISHED"}
    BY <1>1 DEF Audit, WeekAfter, TypeOK
  <2> QED BY <1>1, <2>1, <2>2
     DEF Audit, accountVars, staffVars, scheduleVars, outboxVars, logVars, TypeOK
<1>2. CASE FindRecipients(c)
  <2> DEFINE possible == IF call[c].kind = "unassign" THEN Cancelled(call[c].who)
                         ELSE {Audience(call[c].kind, call[c].who, certified, manages)}
  <2>1. PICK to \in possible : Resume(c, [call[c] EXCEPT !.pc = "insert", !.to = to])
    BY <1>2 DEF FindRecipients
  <2>2. ASSUME call[c].kind \in LooksUp PROVE to \in SUBSET People
    <3>1. CASE call[c].kind = "unassign"
      BY <1>2, <3>1 DEF FindRecipients, Cancelled, ReadsMakeSense, LookupHasUser
    <3>2. CASE call[c].kind # "unassign"
      <4>1. call[c].pc = "recipients" /\ certified \in SUBSET People /\ manages \in SUBSET People
        BY <1>2 DEF FindRecipients, TypeOK
      <4>2. Audience(call[c].kind, call[c].who, certified, manages) \subseteq People
        BY <2>2, <4>1, AudienceTyped
      <4> QED BY <3>2, <4>2
    <3> QED BY <3>1, <3>2
  <2>3. call[c].kind \in LooksUp
    BY <1>2 DEF FindRecipients, ReadsMakeSense, LookupHasUser
  <2>4. [call[c] EXCEPT !.pc = "insert", !.to = to] \in Call
    BY <1>0, <2>2, <2>3 DEF Call, Pcs
  <2>5. call' \in [Calls -> Call]
    BY <2>1, <2>4, ResumeTyped
  <2> QED BY <1>2, <2>5
     DEF FindRecipients, accountVars, staffVars, scheduleVars, outboxVars, auditVars, TypeOK
<1>3. CASE InsertNotices(c)
  <2>1. call' \in [Calls -> Call]
    <3>1. "tell" \in Pcs
      BY DEF Pcs
    <3> QED BY <1>0, <1>3, <3>1, ProceedTyped, PcsOfPlans DEF InsertNotices
  <2>2. notice' \in [Calls -> [People -> {"NONE", "UNREAD", "READ"}]]
    BY <1>3 DEF InsertNotices, TypeOK
  <2> QED BY <1>3, <2>1, <2>2
     DEF InsertNotices, accountVars, staffVars, scheduleVars, auditVars, TypeOK
<1>4. ASSUME NEW p \in People, Tell(c, p) PROVE TypeOK'
  <2>1. [call[c] EXCEPT !.to = call[c].to \ {p}] \in Call
    BY <1>0 DEF Call
  <2>2. call' \in [Calls -> Call]
    <3>1. "tell" \in Pcs
      BY DEF Pcs
    <3> QED BY <1>0, <1>4, <2>1, <3>1, ProceedTyped, PcsOfPlans DEF Tell
  <2>3. mail' \in [Calls -> [People -> Mail]]
    BY <1>4, MailMoves DEF Tell, TypeOK
  <2> QED BY <1>4, <2>2, <2>3
     DEF Tell, accountVars, staffVars, scheduleVars, auditVars, TypeOK
<1> QED BY <1>1, <1>2, <1>3, <1>4 DEF Aftermath

LEMMA AccountCallsTyped ==
  ASSUME TypeInv, NEW c \in Calls, AccountCall(c)
  PROVE  TypeOK'
<1> USE DEF TypeInv
<1> USE Zeros
<1>0. /\ "write" \in Pcs /\ "issue" \in Pcs
      /\ \A kind \in AccountKinds : kind \in Kinds
  BY DEF Pcs, Kinds
<1>1. ASSUME NEW p \in People, CreateUserStart(c, p) PROVE TypeOK'
  BY <1>0, <1>1, FreshCalls, ReadsTyped DEF CreateUserStart, AccountKinds
<1>2. ASSUME NEW p \in People, UpdateUserStart(c, p) PROVE TypeOK'
  BY <1>0, <1>2, FreshCalls, ReadsTyped DEF UpdateUserStart, AccountKinds
<1>3. ASSUME NEW p \in People, SetActiveStart(c, p) PROVE TypeOK'
  BY <1>0, <1>3, FreshCalls, ReadsTyped DEF SetActiveStart, AccountKinds
<1>4. ASSUME NEW p \in People, LoginStart(c, p) PROVE TypeOK'
  <2>1. deactivated[p] \in Nat
    BY DEF TypeOK
  <2>2. [NoCall EXCEPT !.kind = "login", !.pc = "issue", !.who = p, !.asOf = deactivated[p]] \in Call
    BY <1>0, <2>1, NoCallTyped DEF Call, AccountKinds
  <2> QED BY <1>4, <2>2, ReadsTyped DEF LoginStart
<1>5. ASSUME NEW t \in Calls, RefreshStart(c, t) PROVE TypeOK'
  <2>1. token[t].owner \in People
    BY <1>5 DEF RefreshStart, ReadsMakeSense, TokenHasUser
  <2>2. deactivated[token[t].owner] \in Nat /\ t \in 0..MaxCalls
    BY <2>1 DEF TypeOK, Calls
  <2>3. [NoCall EXCEPT !.kind = "refresh", !.pc = "write", !.who = token[t].owner,
                       !.token = t, !.asOf = deactivated[token[t].owner]] \in Call
    BY <1>0, <2>1, <2>2, NoCallTyped DEF Call, AccountKinds
  <2> QED BY <1>5, <2>3, ReadsTyped DEF RefreshStart
<1>6. ASSUME NEW p \in People, UpdateOwnProfile(c, p) PROVE TypeOK'
  <2>1. [NoCall EXCEPT !.kind = "profile"] \in Call
    BY NoCallTyped DEF Call, Kinds, AccountKinds
  <2>2. user' \in [People -> User]
    BY <1>6 DEF UpdateOwnProfile, TypeOK, User
  <2> QED BY <1>6, <2>1, <2>2, CommittedTyped
     DEF UpdateOwnProfile, unlessAccounts, staffVars, scheduleVars, outboxVars, logVars, TypeOK
<1>7. ASSUME NEW t \in Calls, Logout(c, t) PROVE TypeOK'
  <2>1. [NoCall EXCEPT !.kind = "logout"] \in Call
    BY NoCallTyped DEF Call, Kinds, AccountKinds
  <2>2. token' \in [Calls -> Token]
    BY <1>7, RevokedTyped DEF Logout, TypeOK
  <2> QED BY <1>7, <2>1, <2>2, CommittedTyped
     DEF Logout, unlessAccounts, staffVars, scheduleVars, outboxVars, logVars, TypeOK
<1> QED BY <1>1, <1>2, <1>3, <1>4, <1>5, <1>6, <1>7 DEF AccountCall

LEMMA OfficeCallsTyped ==
  ASSUME TypeInv, NEW c \in Calls, OfficeCall(c)
  PROVE  TypeOK'
<1> USE DEF TypeInv
<1>0. /\ "write" \in Pcs /\ "stamp" \in Pcs
      /\ \A kind \in OfficeKinds \cup SeatKinds \cup SwapKinds : kind \in Kinds
  BY DEF Pcs, Kinds
<1> USE Zeros
<1> USE DEF OfficeKinds, SeatKinds, SwapKinds
<1>a. /\ certified \in SUBSET People /\ manages \in SUBSET People
      /\ \A kind \in Kinds : [NoCall EXCEPT !.kind = kind] \in Call
      /\ \A kind \in Kinds, p \in People : [NoCall EXCEPT !.kind = kind, !.who = p] \in Call
      /\ \A kind \in Kinds, to \in SUBSET People : [NoCall EXCEPT !.kind = kind, !.to = to] \in Call
      /\ \A kind \in Kinds : [NoCall EXCEPT !.kind = kind, !.pc = "write"] \in Call
      /\ \A kind \in Kinds, p \in People : [NoCall EXCEPT !.kind = kind, !.pc = "write", !.who = p] \in Call
      /\ \A kind \in Kinds, p \in People : [NoCall EXCEPT !.kind = kind, !.pc = "stamp", !.who = p] \in Call
      /\ \A kind \in Kinds, p \in People, t \in 0..MaxCalls :
           [NoCall EXCEPT !.kind = kind, !.pc = "write", !.who = p, !.token = t] \in Call
  BY <1>0, NoCallTyped DEF TypeOK, Call
<1>1. CASE OpenWeekStart(c)
  BY <1>0, <1>1, <1>a, ReadsTyped DEF OpenWeekStart
<1>2. CASE Publish(c)
  BY <1>0, <1>2, <1>a, CommittedTyped, ConcernsTyped
     DEF Publish, WeekBecomes, Unlogged, accountVars, outboxVars, TypeOK
<1>3. CASE UnpublishStart(c)
  BY <1>0, <1>3, <1>a, ReadsTyped DEF UnpublishStart
<1>4. ASSUME NEW p \in People, AssignManager(c, p) PROVE TypeOK'
  <2>1. manages \cup {p} \in SUBSET People
    BY <1>a
  <2> QED BY <1>0, <1>4, <1>a, <2>1, CommittedTyped, RestaffTyped
     DEF AssignManager, accountVars, scheduleVars, outboxVars, logVars, TypeOK
<1>5. ASSUME NEW p \in People, UnassignManager(c, p) PROVE TypeOK'
  <2>1. manages \ {p} \in SUBSET People
    BY <1>a
  <2> QED BY <1>0, <1>5, <1>a, <2>1, CommittedTyped, RestaffTyped
     DEF UnassignManager, accountVars, scheduleVars, outboxVars, logVars, TypeOK
<1>6. ASSUME NEW p \in People, CertifyLocation(c, p) PROVE TypeOK'
  <2>1. certified \cup {p} \in SUBSET People
    BY <1>a
  <2> QED BY <1>0, <1>6, <1>a, <2>1, CommittedTyped, RestaffTyped
     DEF CertifyLocation, accountVars, scheduleVars, outboxVars, logVars, TypeOK
<1>7. ASSUME NEW p \in People, DecertifyStart(c, p) PROVE TypeOK'
  BY <1>0, <1>7, <1>a, ReadsTyped DEF DecertifyStart
<1>8. ASSUME NEW p \in People, GrantSkill(c, p) PROVE TypeOK'
  <2>1. c \in 0..MaxCalls
    BY DEF Calls
  <2>2. skilled' \in [People -> 0..MaxCalls]
    BY <1>8, <2>1 DEF GrantSkill, TypeOK
  <2> QED BY <1>0, <1>8, <1>a, <2>2, CommittedTyped
     DEF GrantSkill, accountVars, staffVars, outboxVars, logVars, TypeOK
<1>9. ASSUME NEW p \in People, RevokeSkillStart(c, p) PROVE TypeOK'
  <2>1. skilled[p] \in 0..MaxCalls
    BY DEF TypeOK
  <2> QED BY <1>0, <1>9, <1>a, <2>1, ReadsTyped DEF RevokeSkillStart
<1>10. ASSUME NEW p \in People, Assign(c, p) PROVE TypeOK'
  <2>1. seat' \in [People -> Seat]
    BY <1>10 DEF Assign, TypeOK, Seat
  <2> QED BY <1>0, <1>10, <1>a, <2>1, CommittedTyped
     DEF Assign, accountVars, staffVars, outboxVars, logVars, TypeOK
<1>11. ASSUME NEW p \in People, UnassignStart(c, p) PROVE TypeOK'
  BY <1>0, <1>11, <1>a, ReadsTyped DEF UnassignStart
<1>12. ASSUME NEW p \in People, ClockInStart(c, p) PROVE TypeOK'
  BY <1>0, <1>12, <1>a, ReadsTyped DEF ClockInStart
<1>13. ASSUME NEW p \in People, ClockOutStart(c, p) PROVE TypeOK'
  BY <1>0, <1>13, <1>a, ReadsTyped DEF ClockOutStart
<1>14. ASSUME NEW p \in People, AcceptOrClaim(c, p) PROVE TypeOK'
  <2>1. manages \cup {p} \in SUBSET People
    BY <1>a
  <2> QED BY <1>0, <1>14, <1>a, <2>1, CommittedTyped, ConcernsTyped
     DEF AcceptOrClaim, accountVars, scheduleVars, outboxVars, logVars, TypeOK
<1>15. ASSUME NEW p \in People, NEW q \in People, Resolve(c, p, q) PROVE TypeOK'
  <2>1. PICK kind \in TellsParties : \E to \in Told(kind, p, q) :
          /\ Concerns(c, to, to)
          /\ Committed(c, [NoCall EXCEPT !.kind = kind, !.to = to])
    BY <1>15 DEF Resolve
  <2> PICK to \in Told(kind, p, q) :
          /\ Concerns(c, to, to)
          /\ Committed(c, [NoCall EXCEPT !.kind = kind, !.to = to])
    BY <2>1
  <2>2. kind \in Kinds /\ to \in SUBSET People
    BY <1>0, <2>1 DEF TellsParties, Told
  <2> QED BY <1>15, <1>a, <2>1, <2>2, CommittedTyped, ConcernsTyped
     DEF Resolve, accountVars, scheduleVars, outboxVars, logVars, TypeOK
<1> QED BY <1>1, <1>2, <1>3, <1>4, <1>5, <1>6, <1>7, <1>8, <1>9, <1>10, <1>11, <1>12, <1>13, <1>14, <1>15
   DEF OfficeCall

\* What happens without a caller.
Around ==
  \/ \E c \in Calls : Die(c) \/ TokenExpires(c)
  \/ \E c \in Calls, p \in People : WorkerStep(c, p) \/ StallMail(c, p) \/ MarkRead(c, p)
  \/ \E p \in People : MarkAllRead(p)
  \/ Tick

LEMMA AroundTyped ==
  ASSUME TypeInv, Around
  PROVE  TypeOK'
<1> USE DEF TypeInv
<1>1. ASSUME NEW c \in Calls, Die(c) PROVE TypeOK'
  <2>1. Ended(call[c].kind, "dead") \in Call
    BY EndedTyped DEF TypeOK, Call, Pcs
  <2>2. call' \in [Calls -> Call]
    BY <1>1, <2>1, ResumeTyped DEF Die
  <2> QED BY <1>1, <2>2
     DEF Die, Unlogged, accountVars, staffVars, scheduleVars, outboxVars, TypeOK
<1>2. ASSUME NEW c \in Calls, TokenExpires(c) PROVE TypeOK'
  <2>1. token' \in [Calls -> Token]
    <3>1. \A t \in Token : [t EXCEPT !.status = "EXPIRED"] \in Token
      BY DEF Token
    <3> QED BY <1>2, <3>1 DEF TokenExpires, TypeOK
  <2> QED BY <1>2, <2>1
     DEF TokenExpires, unlessAccounts, staffVars, scheduleVars, outboxVars, logVars, TypeOK
<1>3. ASSUME NEW c \in Calls, NEW p \in People, WorkerStep(c, p) PROVE TypeOK'
  <2>1. mail' \in [Calls -> [People -> Mail]]
    <3>1. /\ [mail EXCEPT ![c][p].job = "ACTIVE"] \in [Calls -> [People -> Mail]]
          /\ [mail EXCEPT ![c][p].job = "DONE"] \in [Calls -> [People -> Mail]]
      BY <1>3, MailMoves
    <3> QED BY <1>3, <3>1 DEF WorkerStep, TakeMail, CompleteMail
  <2> QED BY <1>3, <2>1
     DEF WorkerStep, TakeMail, CompleteMail, OnlyMail, accountVars, staffVars, scheduleVars, auditVars, TypeOK
<1>4. ASSUME NEW c \in Calls, NEW p \in People, StallMail(c, p) PROVE TypeOK'
  <2>1. mail[c][p] \in Mail
    BY DEF TypeOK
  <2> DEFINE next == IF mail[c][p].stalls < MaxStalls
                       THEN [job |-> "WAITING", stalls |-> mail[c][p].stalls + 1]
                       ELSE [mail[c][p] EXCEPT !.job = "DONE"]
  <2>2. next \in Mail
    BY <2>1, OfficeAssumption DEF Mail
  <2>3. mail' = [mail EXCEPT ![c][p] = next]
    BY <1>4 DEF StallMail, TypeOK
  <2> HIDE DEF next
  <2>4. mail' \in [Calls -> [People -> Mail]]
    BY <2>2, <2>3 DEF TypeOK
  <2> QED BY <1>4, <2>4
     DEF StallMail, OnlyMail, accountVars, staffVars, scheduleVars, auditVars, TypeOK
<1>5. ASSUME NEW c \in Calls, NEW p \in People, MarkRead(c, p) PROVE TypeOK'
  <2>1. notice' \in [Calls -> [People -> {"NONE", "UNREAD", "READ"}]]
    BY <1>5 DEF MarkRead, TypeOK
  <2> QED BY <1>5, <2>1 DEF MarkRead, accountVars, staffVars, scheduleVars, auditVars, TypeOK
<1>6. ASSUME NEW p \in People, MarkAllRead(p) PROVE TypeOK'
  <2>1. notice' \in [Calls -> [People -> {"NONE", "UNREAD", "READ"}]]
    BY <1>6 DEF MarkAllRead, TypeOK
  <2> QED BY <1>6, <2>1 DEF MarkAllRead, accountVars, staffVars, scheduleVars, auditVars, TypeOK
<1>7. CASE Tick
  <2>1. now' \in 0..MaxNow
    BY <1>7, OfficeAssumption DEF Tick, TypeOK
  <2> QED BY <1>7, <2>1
     DEF Tick, accountVars, staffVars, scheduleVars, outboxVars, auditVars, TypeOK
<1> QED BY <1>1, <1>2, <1>3, <1>4, <1>5, <1>6, <1>7 DEF Around

LEMMA StepsByCaller ==
  ASSUME Next
  PROVE  \/ Around
         \/ \E c \in Calls : AccountStep(c) \/ OfficeStep(c) \/ Aftermath(c)
                            \/ AccountCall(c) \/ OfficeCall(c)
BY DEF Next, Around, CallStep

LEMMA NextTyped == TypeInv /\ [Next]_vars => TypeOK'
<1>1. ASSUME TypeInv, Next PROVE TypeOK'
  BY <1>1, StepsByCaller, AroundTyped, AccountsTyped, OfficeTyped, AftermathTyped,
     AccountCallsTyped, OfficeCallsTyped
<1>2. ASSUME TypeInv, UNCHANGED vars PROVE TypeOK'
  BY <1>2 DEF TypeInv, TypeOK, vars, accountVars, staffVars, scheduleVars, outboxVars, auditVars
<1> QED BY <1>1, <1>2

-----------------------------------------------------------------------------
(* Which step changes what *)

SeatMoves ==
  \E c \in Calls : \/ ClockInWrite(c) \/ ClockOutWrite(c) \/ UnassignWrite(c)
                   \/ \E p \in People : Assign(c, p)
TokenMoves ==
  \E c \in Calls : \/ SetActiveWrite(c) \/ RefreshRevoke(c) \/ IssueTokens(c) \/ TokenExpires(c)
                   \/ \E t \in Calls : Logout(c, t)
UserMoves ==
  \E c \in Calls : \/ CreateUserWrite(c) \/ UpdateUserWrite(c) \/ SetActiveWrite(c)
                   \/ \E p \in People : UpdateOwnProfile(c, p)
StaffMoves ==
  \E c \in Calls : \/ DecertifyWrite(c) \/ UnpublishWrite(c) \/ UnassignWrite(c) \/ Publish(c)
                   \/ \E p \in People : \/ AssignManager(c, p) \/ UnassignManager(c, p)
                                         \/ CertifyLocation(c, p) \/ AcceptOrClaim(c, p)
                                         \/ \E q \in People : Resolve(c, p, q)

WeekMoves(c) == (OpenWeekWrite(c) /\ ~Fails(c)) \/ Publish(c) \/ UnpublishWrite(c)
WeekKinds == {"open", "publish", "unpublish"}

Frames ==
  /\ seat' = seat \/ SeatMoves
  /\ reclocked' = reclocked \/ \E c \in Calls : ClockInWrite(c)
  /\ token' = token \/ TokenMoves
  /\ (user' = user \/ UserMoves) /\ (deactivated' = deactivated \/ \E c \in Calls : SetActiveWrite(c))
  /\ now' = now \/ Tick
  /\ (owed' = owed /\ concerned' = concerned /\ certified' = certified /\ manages' = manages) \/ StaffMoves
  /\ week' = week \/ week' # "NONE"
  /\ (week' = week /\ overtaken' = overtaken) \/ \E c \in Calls : WeekMoves(c) \/ Die(c)
  /\ weekEntry' = weekEntry \/ \E c \in Calls : Audit(c)
  /\ scope' = scope

LEMMA FramesHold == Next => Frames
<1> SUFFICES ASSUME Next PROVE Frames
  OBVIOUS
<1> USE DEF Frames
<1>1. ASSUME NEW c \in Calls, AccountStep(c) PROVE Frames
  BY <1>1 DEF AccountStep, TokenMoves, UserMoves, CreateUserWrite, UpdateUserWrite, SetActiveWrite,
     RefreshRevoke, IssueTokens, unlessAccounts, staffVars, scheduleVars, Fails, accountVars, logVars, auditVars
<1>2. ASSUME NEW c \in Calls, OfficeStep(c) PROVE Frames
  BY <1>2 DEF OfficeStep, SeatMoves, StaffMoves, DecertifyWrite, RevokeSkillWrite, OpenWeekWrite,
     UnpublishWrite, WeekBecomes, WeekMoves, UnassignWrite, ClockInStamp, ClockInWrite, ClockOutStamp,
     ClockOutWrite, Reads, staffVars, scheduleVars, Fails, accountVars, logVars, auditVars
<1>3. ASSUME NEW c \in Calls, Aftermath(c) PROVE Frames
  BY <1>3 DEF Aftermath, Audit, FindRecipients, InsertNotices, Tell,
     staffVars, scheduleVars, accountVars, logVars, auditVars
<1>4. ASSUME NEW c \in Calls, AccountCall(c) PROVE Frames
  BY <1>4 DEF AccountCall, TokenMoves, UserMoves, CreateUserStart, UpdateUserStart, SetActiveStart,
     UpdateOwnProfile, LoginStart, RefreshStart, Logout, Reads,
     unlessAccounts, staffVars, scheduleVars, accountVars, logVars, auditVars
<1>5. ASSUME NEW c \in Calls, OfficeCall(c) PROVE Frames
  <2>1. CASE OpenWeekStart(c) \/ Publish(c) \/ UnpublishStart(c)
    BY <2>1 DEF OpenWeekStart, Publish, WeekBecomes, WeekMoves, UnpublishStart, Reads, Fails, StaffMoves,
       accountVars, staffVars, scheduleVars, logVars, auditVars
  <2>2. ASSUME NEW p \in People,
               AssignManager(c, p) \/ UnassignManager(c, p) \/ CertifyLocation(c, p)
                 \/ AcceptOrClaim(c, p) \/ \E q \in People : Resolve(c, p, q)
        PROVE  Frames
    <3>1. StaffMoves
      BY <2>2 DEF StaffMoves
    <3> QED BY <2>2, <3>1 DEF AssignManager, UnassignManager, CertifyLocation, AcceptOrClaim, Resolve,
       accountVars, scheduleVars, logVars, auditVars
  <2>3. ASSUME NEW p \in People,
               DecertifyStart(c, p) \/ GrantSkill(c, p) \/ RevokeSkillStart(c, p) \/ Assign(c, p)
                 \/ UnassignStart(c, p) \/ ClockInStart(c, p) \/ ClockOutStart(c, p)
        PROVE  Frames
    BY <2>3 DEF DecertifyStart, GrantSkill, RevokeSkillStart, Assign, UnassignStart, ClockInStart,
       ClockOutStart, Reads, SeatMoves, accountVars, staffVars, scheduleVars, logVars, auditVars
  <2> QED BY <1>5, <2>1, <2>2, <2>3 DEF OfficeCall
<1>6. CASE Around
  <2>1. ASSUME NEW c \in Calls, Die(c) PROVE Frames
    BY <2>1 DEF Die, accountVars, staffVars, scheduleVars, logVars, auditVars
  <2>2. ASSUME NEW c \in Calls, TokenExpires(c) PROVE Frames
    BY <2>2 DEF TokenExpires, TokenMoves, unlessAccounts, staffVars, scheduleVars, logVars
  <2>3. ASSUME NEW c \in Calls, NEW p \in People, WorkerStep(c, p) \/ StallMail(c, p) \/ MarkRead(c, p)
        PROVE  Frames
    BY <2>3 DEF WorkerStep, TakeMail, CompleteMail, StallMail, MarkRead, OnlyMail,
       accountVars, staffVars, scheduleVars, logVars, auditVars
  <2>4. ASSUME NEW p \in People, MarkAllRead(p) PROVE Frames
    BY <2>4 DEF MarkAllRead, accountVars, staffVars, scheduleVars, logVars, auditVars
  <2>5. CASE Tick
    BY <2>5 DEF Tick, accountVars, staffVars, scheduleVars, logVars, auditVars
  <2> QED BY <1>6, <2>1, <2>2, <2>3, <2>4, <2>5 DEF Around
<1> QED BY <1>1, <1>2, <1>3, <1>4, <1>5, <1>6, StepsByCaller

-----------------------------------------------------------------------------
(* How a call moves *)

\* It arrives and reads ...
PlainStart(c) ==
  \/ OpenWeekStart(c) \/ UnpublishStart(c)
  \/ \E p \in People : \/ CreateUserStart(c, p) \/ UpdateUserStart(c, p) \/ SetActiveStart(c, p)
                       \/ DecertifyStart(c, p) \/ RevokeSkillStart(c, p) \/ UnassignStart(c, p)
ClockStart(c) == \E p \in People : ClockInStart(c, p) \/ ClockOutStart(c, p)
SessionStart(c) == (\E p \in People : LoginStart(c, p)) \/ \E t \in Calls : RefreshStart(c, t)

\* A clock-in or clock-out takes the time, ...
Stamps(c) ==
  /\ call[c].pc = "stamp" /\ call[c].kind \in {"clockIn", "clockOut"}
  /\ Reads(c, [call[c] EXCEPT !.pc = "write", !.at = now])

\* From its write on, a call owes a notification to those it concerns.
Concerned(c, record) ==
  /\ record.kind \in {"publish", "unpublish"} => Concerns(c, certified, certified)
  /\ record.kind \in {"accept", "claim"} => Concerns(c, manages \cup {record.who}, manages \cup {record.who})
  /\ record.kind = "unassign" => Concerns(c, {}, People)
  /\ record.kind \in TellsParties => Concerns(c, record.to, record.to)
  /\ record.kind \notin LooksUp \cup TellsParties => owed'[c] = owed[c] /\ concerned'[c] = concerned[c]

\* ... writes what it has read, or arrives and writes at once, or ends without a write.
Writes(c) ==
  /\ call[c].pc \in {"write", "issue"}
  /\ call[c].kind \notin {"assign", "accept", "claim"} \cup TellsParties
  /\ Committed(c, call[c]) /\ Concerned(c, call[c])
  /\ call[c].kind = "open" => week = "NONE" /\ week' = "DRAFT"
  /\ call[c].kind \in WeekKinds => WeekMoves(c)
WritesAtOnce(c) ==
  /\ call[c].pc = "new"
  /\ \E record \in Call :
       /\ Committed(c, record) /\ Concerned(c, record)
       /\ record.kind \in {"accept", "claim"} => record.who \in People
       /\ record.kind \in Kinds \ {"unassign", "clockIn", "clockOut", "login", "refresh", "open"}
       /\ record.kind \in WeekKinds => WeekMoves(c)
Ends(c) ==
  /\ InFlight(c) /\ Resume(c, Ended(call[c].kind, "dead")) /\ UNCHANGED wrote
  /\ call[c].pc = "audit" => Die(c)

Moves(c) ==
  PlainStart(c) \/ ClockStart(c) \/ SessionStart(c) \/ Stamps(c) \/ Writes(c) \/ WritesAtOnce(c)
    \/ Ends(c) \/ RefreshRevoke(c) \/ Aftermath(c)

LEMMA UnconcernedKinds ==
  ASSUME NEW c \in Calls, NEW record,
         record.kind \notin LooksUp \cup TellsParties,
         owed'[c] = owed[c] /\ concerned'[c] = concerned[c]
  PROVE  Concerned(c, record)
BY DEF Concerned, LooksUp, TellsParties

LEMMA RestaffOthers ==
  ASSUME TypeInv, NEW c \in Calls, call[c].pc \notin {"audit", "recipients"}, NEW staff, NEW managers,
         Restaff(staff, managers)
  PROVE  owed'[c] = owed[c] /\ concerned'[c] = concerned[c]
BY DEF Restaff, StillToLookUp, TypeInv, TypeOK

LEMMA CallsMove ==
  ASSUME TypeInv, Next
  PROVE  (call' = call /\ wrote' = wrote) \/ \E c \in Calls : Moves(c)
<1> USE DEF Moves
<1>1. ASSUME NEW c \in Calls, AccountStep(c) PROVE Moves(c)
  <2>1. owed'[c] = owed[c] /\ concerned'[c] = concerned[c]
    BY <1>1 DEF AccountStep, CreateUserWrite, UpdateUserWrite, SetActiveWrite, RefreshRevoke, IssueTokens,
       Fails, unlessAccounts, staffVars
  <2>2. CASE call[c].kind \in AccountKinds
    <3>1. /\ Concerned(c, call[c])
          /\ call[c].kind \notin {"assign", "accept", "claim"} \cup TellsParties \cup WeekKinds
      BY <2>1, <2>2, UnconcernedKinds DEF AccountKinds, LooksUp, TellsParties, WeekKinds
    <3> QED BY <1>1, <3>1 DEF AccountStep, CreateUserWrite, UpdateUserWrite, SetActiveWrite, IssueTokens, At,
       Writes, WeekKinds, Ends, InFlight, Fails, auditVars
  <2>3. call[c].kind \in AccountKinds
    BY <1>1 DEF AccountStep, CreateUserWrite, UpdateUserWrite, SetActiveWrite, RefreshRevoke, IssueTokens, At,
       AccountKinds, TypeInv, ReadsMakeSense, SessionHasUser
  <2> QED BY <2>2, <2>3
<1>2. ASSUME NEW c \in Calls, OfficeStep(c) PROVE Moves(c)
  <2>1. CASE Fails(c)
    BY <1>2, <2>1 DEF OfficeStep, DecertifyWrite, RevokeSkillWrite, OpenWeekWrite, UnpublishWrite,
       UnassignWrite, ClockInStamp, ClockInWrite, ClockOutStamp, ClockOutWrite, At, Ends, InFlight,
       Fails, auditVars
  <2>2. CASE UnpublishWrite(c)
    BY <2>2 DEF UnpublishWrite, WeekMoves, At, Writes, Concerned, LooksUp, TellsParties
  <2>3. CASE UnassignWrite(c)
    BY <2>3 DEF UnassignWrite, WeekKinds, At, Writes, Concerned, LooksUp, TellsParties
  <2>4. CASE DecertifyWrite(c)
    <3>1. owed'[c] = owed[c] /\ concerned'[c] = concerned[c] /\ call[c].kind = "decertify"
      BY <2>4, RestaffOthers DEF DecertifyWrite, At
    <3> QED BY <2>4, <3>1, UnconcernedKinds
      DEF DecertifyWrite, WeekKinds, At, Writes, LooksUp, TellsParties
  <2>5. CASE ~Fails(c) /\ (RevokeSkillWrite(c) \/ OpenWeekWrite(c) \/ ClockInWrite(c) \/ ClockOutWrite(c))
    <3>1. /\ owed'[c] = owed[c] /\ concerned'[c] = concerned[c]
          /\ call[c].kind \in {"revokeSkill", "open", "clockIn", "clockOut"}
          /\ call[c].kind = "open" => week = "NONE" /\ week' = "DRAFT"
          /\ call[c].kind \in WeekKinds => WeekMoves(c)
      BY <2>5 DEF RevokeSkillWrite, OpenWeekWrite, WeekBecomes, WeekMoves, WeekKinds, ClockInWrite,
         ClockOutWrite, At, staffVars
    <3> QED BY <2>5, <3>1, UnconcernedKinds DEF RevokeSkillWrite, OpenWeekWrite, ClockInWrite, ClockOutWrite, At,
       Writes, LooksUp, TellsParties
  <2>6. CASE ~Fails(c) /\ (ClockInStamp(c) \/ ClockOutStamp(c))
    BY <2>6 DEF ClockInStamp, ClockOutStamp, Stamps, At
  <2> QED BY <1>2, <2>1, <2>2, <2>3, <2>4, <2>5, <2>6 DEF OfficeStep
<1>3. ASSUME NEW c \in Calls, Aftermath(c) PROVE Moves(c)
  BY <1>3
<1>4. ASSUME NEW c \in Calls, AccountCall(c) PROVE Moves(c)
  <2>1. ASSUME NEW kind \in {"profile", "logout"}, Arrives(c, kind), Committed(c, [NoCall EXCEPT !.kind = kind]),
               owed' = owed, concerned' = concerned
        PROVE  WritesAtOnce(c)
    <3>1. [NoCall EXCEPT !.kind = kind] \in Call /\ [NoCall EXCEPT !.kind = kind].kind = kind
          /\ kind \in Kinds
      BY NoCallTyped DEF Call, Kinds, AccountKinds
    <3>2. Concerned(c, [NoCall EXCEPT !.kind = kind])
      BY <2>1, <3>1, UnconcernedKinds DEF LooksUp, TellsParties
    <3> QED BY <2>1, <3>1, <3>2 DEF WritesAtOnce, Arrives, WeekKinds
  <2>2. ASSUME NEW p \in People, UpdateOwnProfile(c, p) PROVE Moves(c)
    BY <2>1, <2>2 DEF UpdateOwnProfile, unlessAccounts, staffVars
  <2>3. ASSUME NEW t \in Calls, Logout(c, t) PROVE Moves(c)
    BY <2>1, <2>3 DEF Logout, unlessAccounts, staffVars
  <2> QED BY <1>4, <2>2, <2>3 DEF AccountCall, PlainStart, SessionStart
<1>5. ASSUME NEW c \in Calls, OfficeCall(c) PROVE Moves(c)
  <2>1. ASSUME NEW kind \in {"publish", "assignManager", "unassignManager", "certify", "grantSkill", "assign"},
               Arrives(c, kind), Committed(c, [NoCall EXCEPT !.kind = kind]),
               IF kind = "publish" THEN Concerns(c, certified, certified)
               ELSE owed'[c] = owed[c] /\ concerned'[c] = concerned[c],
               kind = "publish" => Publish(c)
        PROVE  WritesAtOnce(c)
    <3>1. [NoCall EXCEPT !.kind = kind] \in Call /\ [NoCall EXCEPT !.kind = kind].kind = kind
          /\ kind \in Kinds
      BY NoCallTyped DEF Call, Kinds, OfficeKinds, SeatKinds
    <3>2. Concerned(c, [NoCall EXCEPT !.kind = kind])
      <4>1. CASE kind = "publish"
        <5> DEFINE r == [NoCall EXCEPT !.kind = kind]
        <5>1. r.kind = "publish"
          BY <3>1, <4>1
        <5> HIDE DEF r
        <5>2. Concerned(c, r)
          BY <2>1, <4>1, <5>1 DEF Concerned, LooksUp, TellsParties
        <5> QED BY <5>2 DEF r
      <4>2. CASE kind # "publish"
        <5> DEFINE r == [NoCall EXCEPT !.kind = kind]
        <5>1. r.kind \notin LooksUp \cup TellsParties
          BY <3>1, <4>2 DEF LooksUp, TellsParties
        <5> HIDE DEF r
        <5>2. Concerned(c, r)
          BY <2>1, <4>2, <5>1, UnconcernedKinds
        <5> QED BY <5>2 DEF r
      <4> QED BY <4>1, <4>2
    <3> QED BY <2>1, <3>1, <3>2 DEF WritesAtOnce, Arrives, WeekKinds, WeekMoves
  <2>2. CASE Publish(c)
    BY <2>1, <2>2 DEF Publish
  <2>3. ASSUME NEW p \in People, AssignManager(c, p) \/ UnassignManager(c, p) \/ CertifyLocation(c, p)
        PROVE  Moves(c)
    <3>1. call[c].pc = "new"
      BY <2>3 DEF AssignManager, UnassignManager, CertifyLocation, Arrives
    <3>2. owed'[c] = owed[c] /\ concerned'[c] = concerned[c]
      BY <2>3, <3>1, RestaffOthers DEF AssignManager, UnassignManager, CertifyLocation
    <3> QED BY <2>1, <2>3, <3>2 DEF AssignManager, UnassignManager, CertifyLocation
  <2>4. ASSUME NEW p \in People, GrantSkill(c, p) \/ Assign(c, p) PROVE Moves(c)
    <3>1. owed' = owed /\ concerned' = concerned
      BY <2>4 DEF GrantSkill, Assign, staffVars
    <3>2. CASE GrantSkill(c, p)
      BY <2>1, <3>1, <3>2 DEF GrantSkill
    <3>3. CASE Assign(c, p)
      BY <2>1, <3>1, <3>3 DEF Assign
    <3> QED BY <2>4, <3>2, <3>3
  <2>5. ASSUME NEW p \in People, AcceptOrClaim(c, p) PROVE Moves(c)
    <3>1. PICK kind \in {"accept", "claim"} :
            Arrives(c, kind) /\ Committed(c, [NoCall EXCEPT !.kind = kind, !.who = p])
      BY <2>5 DEF AcceptOrClaim
    <3>2. /\ [NoCall EXCEPT !.kind = kind, !.who = p] \in Call
          /\ [NoCall EXCEPT !.kind = kind, !.who = p].kind = kind
          /\ [NoCall EXCEPT !.kind = kind, !.who = p].who = p
          /\ kind \in Kinds
      BY NoCallTyped DEF Call, Kinds, SwapKinds
    <3>3. Concerned(c, [NoCall EXCEPT !.kind = kind, !.who = p])
      <4> DEFINE r == [NoCall EXCEPT !.kind = kind, !.who = p]
      <4>1. r.kind \in {"accept", "claim"} /\ r.who = p
        BY <3>2
      <4> HIDE DEF r
      <4>2. Concerns(c, manages \cup {r.who}, manages \cup {r.who})
        BY <2>5, <4>1 DEF AcceptOrClaim
      <4>3. Concerned(c, r)
        BY <4>1, <4>2 DEF Concerned, LooksUp, TellsParties
      <4> QED BY <4>3 DEF r
    <3> QED BY <3>1, <3>2, <3>3 DEF WritesAtOnce, Arrives, WeekKinds
  <2>6. ASSUME NEW p \in People, NEW q \in People, Resolve(c, p, q) PROVE Moves(c)
    <3>1. PICK kind \in TellsParties : \E to \in Told(kind, p, q) :
            /\ Arrives(c, kind) /\ Committed(c, [NoCall EXCEPT !.kind = kind, !.to = to])
            /\ Concerns(c, to, to)
      BY <2>6 DEF Resolve
    <3> PICK to \in Told(kind, p, q) :
            /\ Arrives(c, kind) /\ Committed(c, [NoCall EXCEPT !.kind = kind, !.to = to])
            /\ Concerns(c, to, to)
      BY <3>1
    <3>2. to \in SUBSET People /\ kind \in Kinds
      BY <3>1 DEF TellsParties, Told, Kinds, SwapKinds
    <3>3. /\ [NoCall EXCEPT !.kind = kind, !.to = to] \in Call
          /\ [NoCall EXCEPT !.kind = kind, !.to = to].kind = kind
          /\ [NoCall EXCEPT !.kind = kind, !.to = to].to = to
      BY <3>2, NoCallTyped DEF Call
    <3>4. Concerned(c, [NoCall EXCEPT !.kind = kind, !.to = to])
      BY <3>1, <3>3 DEF Concerned, LooksUp, TellsParties
    <3> QED BY <3>1, <3>2, <3>3, <3>4 DEF WritesAtOnce, Arrives, TellsParties, WeekKinds
  <2> QED BY <1>5, <2>2, <2>3, <2>4, <2>5, <2>6 DEF OfficeCall, PlainStart, ClockStart
<1>6. CASE Around
  <2>1. ASSUME NEW c \in Calls, Die(c) PROVE Moves(c)
    BY <2>1 DEF Die, Ends, auditVars
  <2> QED BY <1>6, <2>1 DEF Around, TokenExpires, WorkerStep, TakeMail, CompleteMail, StallMail, MarkRead,
     MarkAllRead, OnlyMail, Tick, auditVars
<1> QED BY <1>1, <1>2, <1>3, <1>4, <1>5, <1>6, StepsByCaller

LEMMA WritersWrite ==
  ASSUME TypeInv, NEW c \in Calls, ClockInWrite(c) \/ ClockOutWrite(c) \/ IssueTokens(c)
  PROVE  Writes(c)
<1>1. call[c].kind \in {"clockIn", "clockOut", "login", "refresh"}
  BY DEF ClockInWrite, ClockOutWrite, IssueTokens, At, TypeInv, ReadsMakeSense, SessionHasUser
<1>2. owed'[c] = owed[c] /\ concerned'[c] = concerned[c]
  BY DEF ClockInWrite, ClockOutWrite, IssueTokens, unlessAccounts, staffVars
<1>3. Concerned(c, call[c])
  BY <1>1, <1>2, UnconcernedKinds DEF LooksUp, TellsParties
<1> QED BY <1>1, <1>3 DEF ClockInWrite, ClockOutWrite, IssueTokens, At, Writes, TellsParties, WeekKinds

LEMMA Plans ==
  ASSUME NEW kind
  PROVE  /\ AfterWrite(kind) \in {"audit", "recipients", "insert", "done"}
         /\ AfterWrite(kind) = "audit" <=> kind \in Audited \ {"expire"}
         /\ AfterWrite(kind) = "recipients" => kind \in LooksUp
         /\ AfterWrite(kind) = "insert" => kind \in TellsParties
         /\ AfterAudit(kind) \in {"recipients", "insert", "done"}
         /\ AfterAudit(kind) = "recipients" => kind \in LooksUp
         /\ AfterAudit(kind) = "insert" => kind \in TellsParties \ {"expire"}
         /\ AfterTell(kind) = IF kind = "expire" THEN "audit" ELSE "done"
         /\ kind \in {"accept", "claim"} => AfterWrite(kind) = "recipients"
         /\ kind = "unassign" => AfterWrite(kind) = "audit" /\ AfterAudit(kind) = "recipients"
BY DEF AfterWrite, AfterAudit, AfterTell, Notifying, LooksUp, TellsParties, Audited, OfficeKinds

\* What a call has read when it goes on from there.
ClockRead(c) ==
  /\ call[c].kind \in {"clockIn", "clockOut"} => call[c].pc = "stamp" /\ call[c].who \in People
  /\ call[c].kind = "clockOut" => seat[call[c].who].in # Null

SessionRead(c) ==
  call[c].kind \in {"login", "refresh"} =>
    /\ call[c].who \in People /\ user[call[c].who].row = "ACTIVE"
    /\ call[c].asOf = deactivated[call[c].who]
    /\ call[c].kind = "login" => call[c].pc = "issue" /\ call[c].token = 0
    /\ call[c].kind = "refresh" => /\ call[c].pc = "write" /\ call[c].token \in Calls
                                   /\ token[call[c].token].status # "NONE"

Started(c) ==
  /\ call[c].pc \in {"stamp", "write", "issue"}
  /\ call[c].pc = "issue" => call[c].kind = "login"
  /\ SetIsRow(c) /\ SetIsChannel(c) /\ SessionHasUser(c) /\ LookupHasUser(c)
  /\ ClockRead(c) /\ SessionRead(c)

LEMMA StartFacts ==
  ASSUME TypeInv, NEW c \in Calls, PlainStart(c) \/ ClockStart(c) \/ SessionStart(c)
  PROVE  /\ call' \in [Calls -> Call] /\ wrote' = wrote
         /\ \A d \in Calls \ {c} : call'[d] = call[d]
         /\ call[c].pc = "new" /\ Started(c)'
<1> USE Zeros, NoCallTyped
<1> USE DEF TypeInv
<1>0. \A kind \in Kinds : [NoCall EXCEPT !.kind = kind, !.pc = "write"] \in Call
  BY DEF Call, Pcs
<1>k. \A kind \in AccountKinds \cup OfficeKinds \cup SeatKinds : kind \in Kinds
  BY DEF Kinds
<1> DEFINE Goal == /\ call' \in [Calls -> Call] /\ wrote' = wrote
                   /\ \A d \in Calls \ {c} : call'[d] = call[d]
                   /\ call[c].pc = "new" /\ Started(c)'
<1>1. ASSUME NEW kind \in {"open", "unpublish"}, Arrives(c, kind),
             Reads(c, [NoCall EXCEPT !.kind = kind, !.pc = "write"])
      PROVE  Goal
  <2> DEFINE r == [NoCall EXCEPT !.kind = kind, !.pc = "write"]
  <2>1. r \in Call /\ r.kind = kind /\ r.pc = "write"
    BY <1>0, <1>k DEF OfficeKinds, Call
  <2>2. /\ call' \in [Calls -> Call] /\ call'[c] = r
        /\ \A d \in Calls \ {c} : call'[d] = call[d]
    BY <1>1, <2>1, ResumeTyped DEF Reads
  <2> HIDE DEF r
  <2> QED BY <1>1, <2>1, <2>2 DEF Reads, auditVars, Arrives, Started, SetIsRow, SetIsChannel, SessionHasUser,
     LookupHasUser, ClockRead, SessionRead, At
<1>2. ASSUME NEW kind \in {"decertify", "revokeSkill", "unassign"},
             NEW p \in People, NEW t \in 0..MaxCalls, Arrives(c, kind),
             Reads(c, [NoCall EXCEPT !.kind = kind, !.pc = "write", !.who = p, !.token = t])
      PROVE  Goal
  <2> DEFINE r == [NoCall EXCEPT !.kind = kind, !.pc = "write", !.who = p, !.token = t]
  <2>1. r \in Call /\ r.kind = kind /\ r.pc = "write" /\ r.who = p
    BY <1>k DEF OfficeKinds, SeatKinds, Call, Pcs
  <2>2. /\ call' \in [Calls -> Call] /\ call'[c] = r
        /\ \A d \in Calls \ {c} : call'[d] = call[d]
    BY <1>2, <2>1, ResumeTyped DEF Reads
  <2> HIDE DEF r
  <2> QED BY <1>2, <2>1, <2>2 DEF Reads, auditVars, Arrives, Started, SetIsRow, SetIsChannel, SessionHasUser,
     LookupHasUser, ClockRead, SessionRead, At
<1>3. ASSUME NEW kind \in {"create", "update", "setActive"}, NEW p \in People,
             NEW set \in IF kind = "setActive" THEN {"ACTIVE", "INACTIVE"} ELSE Channels, Arrives(c, kind),
             Reads(c, [NoCall EXCEPT !.kind = kind, !.pc = "write", !.who = p, !.set = set])
      PROVE  Goal
  <2> DEFINE r == [NoCall EXCEPT !.kind = kind, !.pc = "write", !.who = p, !.set = set]
  <2>1. r \in Call /\ r.kind = kind /\ r.pc = "write" /\ r.who = p /\ r.set = set
    BY <1>k DEF AccountKinds, Call, Pcs
  <2>2. /\ call' \in [Calls -> Call] /\ call'[c] = r
        /\ \A d \in Calls \ {c} : call'[d] = call[d]
    BY <1>3, <2>1, ResumeTyped DEF Reads
  <2> HIDE DEF r
  <2> QED BY <1>3, <2>1, <2>2 DEF Reads, auditVars, Arrives, Started, SetIsRow, SetIsChannel, SessionHasUser,
     LookupHasUser, ClockRead, SessionRead, At
<1>4. CASE PlainStart(c)
  <2>1. CASE OpenWeekStart(c) \/ UnpublishStart(c)
    BY <1>1, <2>1 DEF OpenWeekStart, UnpublishStart
  <2>2. ASSUME NEW p \in People, DecertifyStart(c, p) \/ RevokeSkillStart(c, p) \/ UnassignStart(c, p)
        PROVE  Goal
    <3>1. skilled[p] \in 0..MaxCalls /\ 0 \in 0..MaxCalls
      BY DEF TypeOK
    <3>2. ASSUME NEW kind \in {"decertify", "unassign"}
          PROVE  [NoCall EXCEPT !.kind = kind, !.pc = "write", !.who = p]
                   = [NoCall EXCEPT !.kind = kind, !.pc = "write", !.who = p, !.token = 0]
      BY NoCallTyped, NoCallFields DEF Call
    <3>3. CASE RevokeSkillStart(c, p)
      BY <1>2, <3>1, <3>3 DEF RevokeSkillStart
    <3>4. CASE DecertifyStart(c, p)
      BY <1>2, <3>1, <3>2, <3>4 DEF DecertifyStart
    <3>5. CASE UnassignStart(c, p)
      BY <1>2, <3>1, <3>2, <3>5 DEF UnassignStart
    <3> QED BY <2>2, <3>3, <3>4, <3>5
  <2>3. ASSUME NEW p \in People, CreateUserStart(c, p) \/ UpdateUserStart(c, p) \/ SetActiveStart(c, p)
        PROVE  Goal
    BY <1>3, <2>3 DEF CreateUserStart, UpdateUserStart, SetActiveStart
  <2> QED BY <1>4, <2>1, <2>2, <2>3 DEF PlainStart
<1>5. CASE ClockStart(c)
  <2>1. PICK p \in People : ClockInStart(c, p) \/ ClockOutStart(c, p)
    BY <1>5 DEF ClockStart
  <2>2. PICK kind \in {"clockIn", "clockOut"} :
          /\ kind = "clockIn" => ClockInStart(c, p)
          /\ kind = "clockOut" => ClockOutStart(c, p)
    BY <2>1
  <2> DEFINE r == [NoCall EXCEPT !.kind = kind, !.pc = "stamp", !.who = p]
  <2>3. r \in Call /\ r.kind = kind /\ r.pc = "stamp" /\ r.who = p
    BY <1>k DEF SeatKinds, Call, Pcs
  <2>4. Reads(c, r) /\ Arrives(c, kind)
    BY <2>2 DEF ClockInStart, ClockOutStart
  <2>5. /\ call' \in [Calls -> Call] /\ call'[c] = r
        /\ \A d \in Calls \ {c} : call'[d] = call[d]
    BY <2>3, <2>4, ResumeTyped DEF Reads
  <2> HIDE DEF r
  <2>6. seat' = seat /\ wrote' = wrote /\ call[c].pc = "new"
    BY <2>4 DEF Reads, scheduleVars, auditVars, Arrives
  <2>7. ClockRead(c)'
    BY <2>2, <2>3, <2>5, <2>6 DEF ClockRead, ClockInStart, ClockOutStart
  <2> QED BY <2>3, <2>5, <2>6, <2>7 DEF Started, SetIsRow, SetIsChannel, SessionHasUser,
     LookupHasUser, SessionRead, At
<1>6. ASSUME NEW p \in People, LoginStart(c, p) PROVE Goal
  <2> DEFINE r == [NoCall EXCEPT !.kind = "login", !.pc = "issue", !.who = p, !.asOf = deactivated[p]]
  <2>1. r \in Call /\ r.kind = "login" /\ r.pc = "issue" /\ r.who = p /\ r.asOf = deactivated[p] /\ r.token = 0
    BY <1>k, NoCallFields DEF AccountKinds, Call, Pcs, TypeOK
  <2>2. /\ call' \in [Calls -> Call] /\ call'[c] = r
        /\ \A d \in Calls \ {c} : call'[d] = call[d]
    BY <1>6, <2>1, ResumeTyped DEF Reads, LoginStart
  <2> HIDE DEF r
  <2>3. user' = user /\ deactivated' = deactivated /\ user[p].row = "ACTIVE" /\ wrote' = wrote /\ call[c].pc = "new"
    BY <1>6 DEF LoginStart, Reads, accountVars, auditVars, Arrives
  <2> QED BY <2>1, <2>2, <2>3 DEF Started, SetIsRow, SetIsChannel, SessionHasUser,
     LookupHasUser, ClockRead, SessionRead, At
<1>7. ASSUME NEW t \in Calls, RefreshStart(c, t) PROVE Goal
  <2> DEFINE p == token[t].owner
  <2>0. p \in People /\ t \in 0..MaxCalls /\ deactivated[p] \in Nat
    BY <1>7 DEF RefreshStart, ReadsMakeSense, TokenHasUser, TypeOK, Calls
  <2> HIDE DEF p
  <2> DEFINE r == [NoCall EXCEPT !.kind = "refresh", !.pc = "write", !.who = p, !.token = t, !.asOf = deactivated[p]]
  <2>1. r \in Call /\ r.kind = "refresh" /\ r.pc = "write" /\ r.who = p /\ r.asOf = deactivated[p] /\ r.token = t
    BY <1>k, <2>0 DEF AccountKinds, Call, Pcs
  <2>2. /\ call' \in [Calls -> Call] /\ call'[c] = r
        /\ \A d \in Calls \ {c} : call'[d] = call[d]
    BY <1>7, <2>1, ResumeTyped DEF Reads, RefreshStart, p
  <2> HIDE DEF r
  <2>3. /\ user' = user /\ deactivated' = deactivated /\ user[p].row = "ACTIVE" /\ wrote' = wrote
        /\ call[c].pc = "new" /\ token' = token /\ token[t].status # "NONE"
    BY <1>7 DEF RefreshStart, Reads, accountVars, auditVars, Arrives, p
  <2> QED BY <2>0, <2>1, <2>2, <2>3 DEF Started, SetIsRow, SetIsChannel, SessionHasUser,
     LookupHasUser, ClockRead, SessionRead, At
<1> QED BY <1>4, <1>5, <1>6, <1>7 DEF SessionStart

\* The other moves, by where the call goes and what it keeps.
Goes(c, pc) ==
  /\ call'[c].kind = call[c].kind /\ call'[c].pc = pc
  /\ pc \notin {"done", "dead"} =>
       /\ call'[c].who = call[c].who /\ call'[c].set = call[c].set /\ call'[c].token = call[c].token
       /\ call'[c].asOf = call[c].asOf /\ call'[c].at = call[c].at /\ call'[c].to = call[c].to

LEMMA GoesOn ==
  ASSUME NEW c \in Calls, NEW pc \in Pcs, call[c] \in Call, call'[c].kind = call[c].kind, call'[c].pc = pc,
         pc \notin {"done", "dead"} => call'[c] = [call[c] EXCEPT !.pc = pc]
  PROVE  Goes(c, pc)
BY DEF Goes, Call

LEMMA StampFacts ==
  ASSUME TypeInv, NEW c \in Calls, Stamps(c)
  PROVE  /\ call[c].pc = "stamp" /\ call[c].kind \in {"clockIn", "clockOut"} /\ call[c].who \in People
         /\ call'[c].kind = call[c].kind /\ call'[c].pc = "write" /\ call'[c].who = call[c].who
         /\ call'[c].at = now
         /\ \A d \in Calls \ {c} : call'[d] = call[d]
         /\ wrote' = wrote
<1> DEFINE r == [call[c] EXCEPT !.pc = "write", !.at = now]
<1>1. call[c] \in Call /\ now \in 0..MaxNow
  BY DEF TypeInv, TypeOK
<1>2. r \in Call /\ r.kind = call[c].kind /\ r.pc = "write" /\ r.who = call[c].who /\ r.at = now
  BY <1>1 DEF Call, Pcs
<1>3. Resume(c, r) /\ wrote' = wrote
  BY DEF Stamps, Reads, auditVars
<1> HIDE DEF r
<1>4. call'[c] = r /\ \A d \in Calls \ {c} : call'[d] = call[d]
  BY <1>2, <1>3, ResumeTyped DEF TypeInv
<1>5. call[c].who \in People
  BY DEF Stamps, TypeInv, ReadsMakeSense, LookupHasUser
<1> QED BY <1>2, <1>3, <1>4, <1>5 DEF Stamps

LEMMA WriteFacts ==
  ASSUME TypeInv, NEW c \in Calls, Writes(c)
  PROVE  Goes(c, AfterWrite(call[c].kind)) /\ wrote' = wrote \cup {c}
<1>1. call[c] \in Call /\ AfterWrite(call[c].kind) \in Pcs
  BY PcsOfPlans DEF TypeInv, TypeOK
<1> QED BY <1>1, CommittedTyped, GoesOn DEF TypeInv, Writes

LEMMA EndFacts ==
  ASSUME TypeInv, NEW c \in Calls, Ends(c)
  PROVE  Goes(c, "dead") /\ wrote' = wrote
<1>1. call[c].kind \in Kinds \cup {"none"} /\ "dead" \in Pcs
  BY DEF TypeInv, TypeOK, Call, Pcs
<1> QED BY <1>1, EndedTyped, ResumeTyped DEF TypeInv, Ends, Goes

LEMMA RevokeFacts ==
  ASSUME TypeInv, NEW c \in Calls, RefreshRevoke(c)
  PROVE  Goes(c, "issue") /\ wrote' = wrote
<1>1. call[c] \in Call
  BY DEF TypeInv, TypeOK
<1>2. /\ [call[c] EXCEPT !.pc = "issue"] \in Call
      /\ [call[c] EXCEPT !.pc = "issue"].kind = call[c].kind
      /\ [call[c] EXCEPT !.pc = "issue"].pc = "issue"
  BY <1>1 DEF Call, Pcs
<1> QED BY <1>1, <1>2, ResumeTyped, GoesOn DEF TypeInv, RefreshRevoke, Pcs

LEMMA AuditFacts ==
  ASSUME TypeInv, NEW c \in Calls, Audit(c)
  PROVE  Goes(c, AfterAudit(call[c].kind)) /\ wrote' = wrote
<1>1. call[c] \in Call /\ AfterAudit(call[c].kind) \in Pcs
  BY PcsOfPlans DEF TypeInv, TypeOK
<1>2. /\ call'[c].kind = call[c].kind /\ call'[c].pc = AfterAudit(call[c].kind)
      /\ AfterAudit(call[c].kind) # "done" => call'[c] = [call[c] EXCEPT !.pc = AfterAudit(call[c].kind)]
  BY <1>1, ProceedTyped DEF TypeInv, Audit
<1>3. Goes(c, AfterAudit(call[c].kind))
  BY <1>1, <1>2, GoesOn
<1> QED BY <1>3 DEF Audit

\* FindRecipients puts those it has found into to; InsertNotices and Tell end the call when
\* nobody is left.
LEMMA FindFacts ==
  ASSUME TypeInv, NEW c \in Calls, FindRecipients(c)
  PROVE  /\ call'[c].kind = call[c].kind /\ call'[c].pc = "insert" /\ call'[c].who = call[c].who
         /\ call'[c].to \in SUBSET People
         /\ call[c].kind # "unassign"
              => call'[c].to = Audience(call[c].kind, call[c].who, certified, manages)
         /\ wrote' = wrote
<1> DEFINE possible == IF call[c].kind = "unassign" THEN Cancelled(call[c].who)
                       ELSE {Audience(call[c].kind, call[c].who, certified, manages)}
<1>1. PICK to \in possible : Resume(c, [call[c] EXCEPT !.pc = "insert", !.to = to])
  BY DEF FindRecipients
<1>2. /\ call[c] \in Call /\ call[c].pc = "recipients" /\ call[c].kind \in LooksUp
      /\ certified \in SUBSET People /\ manages \in SUBSET People
  BY DEF FindRecipients, TypeInv, TypeOK, ReadsMakeSense, LookupHasUser
<1>3. to \in SUBSET People
  <2>1. CASE call[c].kind = "unassign"
    BY <1>1, <1>2, <2>1 DEF Cancelled, TypeInv, ReadsMakeSense, LookupHasUser
  <2>2. CASE call[c].kind # "unassign"
    BY <1>1, <1>2, <2>2, AudienceTyped
  <2> QED BY <2>1, <2>2
<1> DEFINE r == [call[c] EXCEPT !.pc = "insert", !.to = to]
<1>4. r \in Call /\ r.kind = call[c].kind /\ r.pc = "insert" /\ r.who = call[c].who /\ r.to = to
  BY <1>2, <1>3 DEF Call, Pcs
<1>5. call'[c] = r
  BY <1>1, <1>4, ResumeTyped DEF TypeInv
<1>6. wrote' = wrote
  BY DEF FindRecipients, auditVars
<1> HIDE DEF r
<1> QED BY <1>1, <1>3, <1>4, <1>5, <1>6

LEMMA InsertFacts ==
  ASSUME TypeInv, NEW c \in Calls, InsertNotices(c)
  PROVE  /\ Goes(c, IF call[c].to = {} THEN AfterTell(call[c].kind) ELSE "tell")
         /\ wrote' = wrote
<1>1. call[c] \in Call /\ AfterTell(call[c].kind) \in Pcs /\ "tell" \in Pcs
  BY PcsOfPlans DEF TypeInv, TypeOK, Pcs
<1> DEFINE pc == IF call[c].to = {} THEN AfterTell(call[c].kind) ELSE "tell"
<1>2. pc \in Pcs /\ Proceed(c, call[c], pc) /\ wrote' = wrote
  BY <1>1 DEF InsertNotices, auditVars
<1> HIDE DEF pc
<1>3. /\ call'[c].kind = call[c].kind /\ call'[c].pc = pc
      /\ pc # "done" => call'[c] = [call[c] EXCEPT !.pc = pc]
  BY <1>1, <1>2, ProceedTyped DEF TypeInv
<1>4. Goes(c, pc)
  BY <1>1, <1>2, <1>3, GoesOn
<1> QED BY <1>2, <1>4 DEF pc

LEMMA TellFacts ==
  ASSUME TypeInv, NEW c \in Calls, NEW p \in People, Tell(c, p)
  PROVE  /\ call'[c].kind = call[c].kind
         /\ call'[c].pc = IF call[c].to \ {p} = {} THEN AfterTell(call[c].kind) ELSE "tell"
         /\ call'[c].pc # "done" => call'[c].to = call[c].to \ {p}
         /\ wrote' = wrote
<1> DEFINE r == [call[c] EXCEPT !.to = call[c].to \ {p}]
           pc == IF call[c].to \ {p} = {} THEN AfterTell(call[c].kind) ELSE "tell"
<1>1. call[c] \in Call /\ pc \in Pcs
  BY PcsOfPlans DEF TypeInv, TypeOK, Pcs
<1>2. r \in Call /\ r.kind = call[c].kind /\ r.to = call[c].to \ {p}
      /\ [r EXCEPT !.pc = pc].to = r.to
  BY <1>1 DEF Call
<1>3. Proceed(c, r, pc) /\ wrote' = wrote
  BY DEF Tell, auditVars
<1> HIDE DEF r, pc
<1>4. /\ call'[c].kind = r.kind /\ call'[c].pc = pc
      /\ pc # "done" => call'[c] = [r EXCEPT !.pc = pc]
  BY <1>1, <1>2, <1>3, ProceedTyped DEF TypeInv
<1> QED BY <1>2, <1>3, <1>4 DEF pc

LEMMA OthersStay ==
  ASSUME TypeInv, NEW c \in Calls, Moves(c), NEW d \in Calls \ {c}
  PROVE  call'[d] = call[d]
<1> USE DEF TypeInv
<1>1. call[c] \in Call
  BY DEF TypeOK
<1>2. CASE PlainStart(c) \/ ClockStart(c) \/ SessionStart(c) \/ Stamps(c)
  BY <1>2, StartFacts, StampFacts
<1>3. CASE Writes(c) \/ WritesAtOnce(c)
  BY <1>1, <1>3, CommittedTyped DEF Writes, WritesAtOnce
<1>4. CASE Ends(c) \/ RefreshRevoke(c) \/ Aftermath(c)
  BY <1>1, <1>4 DEF Ends, RefreshRevoke, Aftermath, Audit, FindRecipients, InsertNotices, Tell, Proceed,
     Resume, TypeOK
<1> QED BY <1>2, <1>3, <1>4 DEF Moves

\* Only an arriving call and one that takes the time stand before their write, and only the
\* revocation of the old token leads a call that is under way to the issue of a new one.
LEMMA NotBeforeWrite ==
  ASSUME TypeInv, NEW c \in Calls, Writes(c) \/ WritesAtOnce(c) \/ Ends(c) \/ Aftermath(c)
  PROVE  call'[c].pc \notin {"new", "stamp", "write", "issue"}
<1>1. CASE Writes(c)
  BY <1>1, WriteFacts, Plans DEF Goes
<1>2. CASE WritesAtOnce(c)
  <2>1. PICK record \in Call : Committed(c, record)
    BY <1>2 DEF WritesAtOnce
  <2>2. call'[c].pc = AfterWrite(record.kind)
    BY <2>1, CommittedTyped DEF TypeInv
  <2> QED BY <2>2, Plans
<1>3. CASE Ends(c)
  BY <1>3, EndFacts DEF Goes
<1>4. CASE Audit(c)
  BY <1>4, AuditFacts, Plans DEF Goes
<1>5. CASE FindRecipients(c)
  BY <1>5, FindFacts
<1>6. CASE InsertNotices(c)
  <2>1. call'[c].pc = IF call[c].to = {} THEN AfterTell(call[c].kind) ELSE "tell"
    BY <1>6, InsertFacts DEF Goes
  <2> QED BY <2>1, Plans
<1>7. ASSUME NEW p \in People, Tell(c, p) PROVE call'[c].pc \notin {"new", "stamp", "write", "issue"}
  <2>1. call'[c].pc = IF call[c].to \ {p} = {} THEN AfterTell(call[c].kind) ELSE "tell"
    BY <1>7, TellFacts
  <2> QED BY <2>1, Plans
<1> QED BY <1>1, <1>2, <1>3, <1>4, <1>5, <1>6, <1>7 DEF Aftermath

LEMMA CallReadsKept ==
  ASSUME TypeInv, NEW c \in Calls, Moves(c)
  PROVE  (SetIsRow(c) /\ SetIsChannel(c) /\ SessionHasUser(c) /\ LookupHasUser(c))'
<1> DEFINE Goal == (SetIsRow(c) /\ SetIsChannel(c) /\ SessionHasUser(c) /\ LookupHasUser(c))'
<1> USE DEF SetIsRow, SetIsChannel, SessionHasUser, LookupHasUser, At
<1>0. /\ call[c] \in Call
      /\ SetIsRow(c) /\ SetIsChannel(c) /\ SessionHasUser(c) /\ LookupHasUser(c)
  BY DEF TypeInv, TypeOK, ReadsMakeSense
<1>1. CASE PlainStart(c) \/ ClockStart(c) \/ SessionStart(c)
  BY <1>1, StartFacts DEF Started
<1>s. CASE Stamps(c)
  BY <1>s, StampFacts
<1>2. CASE Writes(c)
  <2>1. Goes(c, AfterWrite(call[c].kind))
    BY <1>2, WriteFacts
  <2>2. AfterWrite(call[c].kind) \in {"audit", "recipients", "insert", "done"}
    BY Plans
  <2>3. call[c].pc = "write" \/ call[c].kind \notin {"accept", "claim", "unassign", "clockIn", "clockOut"}
          \/ call[c].who \in People
    BY <1>0, <1>2 DEF Writes
  <2>4. AfterWrite(call[c].kind) = "recipients" => call[c].kind \in LooksUp
    BY Plans
  <2> QED BY <1>0, <2>1, <2>2, <2>3, <2>4 DEF Goes
<1>3. CASE WritesAtOnce(c)
  <2>1. PICK record \in Call :
          /\ Committed(c, record)
          /\ record.kind \in {"accept", "claim"} => record.who \in People
          /\ record.kind \in Kinds \ {"unassign", "clockIn", "clockOut", "login", "refresh", "open"}
    BY <1>3 DEF WritesAtOnce
  <2>2. [record EXCEPT !.pc = AfterWrite(record.kind)].who = record.who
    BY DEF Call
  <2>3. /\ AfterWrite(record.kind) \in {"audit", "recipients", "insert", "done"}
        /\ AfterWrite(record.kind) = "recipients" => record.kind \in LooksUp
        /\ record.kind \in {"accept", "claim"} => AfterWrite(record.kind) = "recipients"
    BY Plans
  <2>4. /\ call'[c].kind = record.kind /\ call'[c].pc = AfterWrite(record.kind)
        /\ AfterWrite(record.kind) # "done" => call'[c].who = record.who
    BY <2>1, <2>2, CommittedTyped DEF TypeInv
  <2> QED BY <2>1, <2>3, <2>4
<1>4. CASE Ends(c)
  BY <1>4, EndFacts DEF Goes
<1>5. CASE RefreshRevoke(c)
  <2>1. Goes(c, "issue")
    BY <1>5, RevokeFacts
  <2> QED BY <1>0, <1>5, <2>1 DEF Goes, RefreshRevoke
<1>6. CASE Audit(c)
  <2>1. Goes(c, AfterAudit(call[c].kind))
    BY <1>6, AuditFacts
  <2>2. /\ AfterAudit(call[c].kind) \in {"recipients", "insert", "done"}
        /\ AfterAudit(call[c].kind) = "recipients" => call[c].kind \in LooksUp
    BY Plans
  <2> QED BY <1>0, <1>6, <2>1, <2>2 DEF Goes, Audit
<1>7. CASE FindRecipients(c)
  BY <1>7, FindFacts
<1>8. CASE InsertNotices(c)
  <2>1. Goes(c, IF call[c].to = {} THEN AfterTell(call[c].kind) ELSE "tell")
    BY <1>8, InsertFacts
  <2>2. AfterTell(call[c].kind) = IF call[c].kind = "expire" THEN "audit" ELSE "done"
    BY Plans
  <2> QED BY <2>1, <2>2 DEF Goes
<1>9. ASSUME NEW p \in People, Tell(c, p) PROVE Goal
  <2>1. /\ call'[c].kind = call[c].kind
        /\ call'[c].pc = IF call[c].to \ {p} = {} THEN AfterTell(call[c].kind) ELSE "tell"
    BY <1>9, TellFacts
  <2>2. AfterTell(call[c].kind) = IF call[c].kind = "expire" THEN "audit" ELSE "done"
    BY Plans
  <2> QED BY <2>1, <2>2
<1> QED BY <1>1, <1>s, <1>2, <1>3, <1>4, <1>5, <1>6, <1>7, <1>8, <1>9 DEF Moves, Aftermath

\* A token row never goes away, and always has an owner.
LEMMA TokenRowsKept ==
  ASSUME TypeInv, Next, NEW t \in Calls
  PROVE  TokenHasUser(t)' /\ (token[t].status # "NONE" => token'[t].status # "NONE")
<1> DEFINE Goal == TokenHasUser(t)' /\ (token[t].status # "NONE" => token'[t].status # "NONE")
<1> USE DEF TypeInv, TokenHasUser
<1>0. token \in [Calls -> Token] /\ TokenHasUser(t)
  BY DEF TypeOK, ReadsMakeSense
<1>1. CASE token' = token
  BY <1>0, <1>1
<1>2. ASSUME NEW c \in Calls, SetActiveWrite(c) PROVE Goal
  <2>1. token' = token \/ token' = RevokeAllOf(call[c].who)
    BY <1>2 DEF SetActiveWrite
  <2>2. /\ RevokeAllOf(call[c].who)[t] = token[t] \/ RevokeAllOf(call[c].who)[t] = Revoked(token[t])
        /\ token[t].status = "NONE" => RevokeAllOf(call[c].who)[t] = token[t]
    BY DEF RevokeAllOf, Unrevoked
  <2>3. Revoked(token[t]).owner = token[t].owner /\ Revoked(token[t]).status = "REVOKED"
    BY <1>0, RevokedTyped
  <2> QED BY <1>0, <2>1, <2>2, <2>3
<1>3. ASSUME NEW c \in Calls, RefreshRevoke(c) PROVE Goal
  <2>1. call[c].token \in Calls /\ token[call[c].token].status # "NONE"
    BY <1>3 DEF RefreshRevoke, At, ReadsMakeSense, SessionHasUser, RefreshOfRow
  <2>2. TokenHasUser(call[c].token)
    BY <2>1 DEF ReadsMakeSense
  <2> QED BY <1>0, <1>3, <2>1, <2>2, RevokedTyped DEF RefreshRevoke
<1>4. ASSUME NEW c \in Calls, IssueTokens(c) PROVE Goal
  <2>1. call[c].who \in People
    BY <1>4 DEF IssueTokens, ReadsMakeSense, SessionHasUser
  <2> QED BY <1>0, <1>4, <2>1 DEF IssueTokens
<1>5. ASSUME NEW c \in Calls, TokenExpires(c) PROVE Goal
  <2>1. token[c] \in Token /\ TokenHasUser(c)
    BY DEF TypeOK, ReadsMakeSense
  <2>2. [token[c] EXCEPT !.status = "EXPIRED"].owner = token[c].owner
        /\ [token[c] EXCEPT !.status = "EXPIRED"].status = "EXPIRED"
    BY <2>1 DEF Token
  <2> QED BY <1>0, <1>5, <2>1, <2>2 DEF TokenExpires
<1>6. ASSUME NEW u \in Calls, NEW c \in Calls, Logout(c, u) PROVE Goal
  BY <1>0, <1>6, RevokedTyped DEF Logout, ReadsMakeSense
<1> QED BY <1>1, <1>2, <1>3, <1>4, <1>5, <1>6, FramesHold DEF Frames, TokenMoves

LEMMA RefreshRowsKept ==
  ASSUME TypeInv, Next, NEW c \in Calls
  PROVE  RefreshOfRow(c)'
<1> USE DEF RefreshOfRow, At
<1>1. CASE call'[c] = call[c]
  <2>1. At(c, "refresh", "write") => call[c].token \in Calls /\ RefreshOfRow(c)
    BY DEF TypeInv, ReadsMakeSense, SessionHasUser
  <2> QED BY <1>1, <2>1, TokenRowsKept
<1>2. CASE Moves(c)
  <2>1. CASE PlainStart(c) \/ ClockStart(c) \/ SessionStart(c)
    BY <2>1, StartFacts DEF Started, SessionRead
  <2>2. CASE RefreshRevoke(c)
    BY <2>2, RevokeFacts DEF Goes
  <2>3. CASE Stamps(c)
    BY <2>3, StampFacts
  <2> QED BY <1>2, <2>1, <2>2, <2>3, NotBeforeWrite DEF Moves
<1> QED BY <1>1, <1>2, CallsMove, OthersStay

LEMMA TypeInvKept == TypeInv /\ [Next]_vars => TypeInv'
<1>1. ASSUME TypeInv, Next PROVE TypeInv'
  <2>1. ASSUME NEW c \in Calls
        PROVE  (SetIsRow(c) /\ SetIsChannel(c) /\ SessionHasUser(c) /\ LookupHasUser(c))'
    <3>1. CASE call'[c] = call[c]
      BY <1>1, <3>1 DEF TypeInv, ReadsMakeSense, SetIsRow, SetIsChannel, SessionHasUser, LookupHasUser, At
    <3>2. CASE Moves(c)
      BY <1>1, <3>2, CallReadsKept
    <3> QED BY <1>1, <3>1, <3>2, CallsMove, OthersStay
  <2>2. TypeOK'
    BY <1>1, NextTyped
  <2> QED BY <1>1, <2>1, <2>2, TokenRowsKept, RefreshRowsKept DEF TypeInv, ReadsMakeSense
<1>2. ASSUME TypeInv, UNCHANGED vars PROVE TypeInv'
  <2>1. TypeOK'
    BY <1>2, NextTyped
  <2> QED BY <1>2, <2>1 DEF TypeInv, ReadsMakeSense, SetIsRow, SetIsChannel, SessionHasUser, LookupHasUser,
     TokenHasUser, RefreshOfRow, At, vars, accountVars
<1> QED BY <1>1, <1>2

\* Every reachable state is typed (TypeOK): what users.service.ts writes into a row, what
\* auth.service.ts puts into a token and whom notifications.service.ts notifies come out of
\* what the same call has read before.
THEOREM OfficeTypeCorrect == Spec => []TypeOK
<1>1. Spec => []TypeInv
  BY InitTyped, TypeInvKept, PTL DEF Spec
<1>2. TypeInv => TypeOK
  BY DEF TypeInv
<1> QED BY <1>1, <1>2, PTL

-----------------------------------------------------------------------------
(* The time clock *)

LEMMA StartsOnlyRead ==
  ASSUME NEW c \in Calls, PlainStart(c) \/ ClockStart(c) \/ SessionStart(c)
  PROVE  /\ UNCHANGED <<user, token, deactivated, seat, reclocked, notice, mail, wrote, now>>
         /\ UNCHANGED <<manages, certified, owed, concerned>>
BY DEF PlainStart, ClockStart, SessionStart, OpenWeekStart, UnpublishStart, CreateUserStart, UpdateUserStart,
   SetActiveStart, DecertifyStart, RevokeSkillStart, UnassignStart, ClockInStart, ClockOutStart, LoginStart,
   RefreshStart, Reads, accountVars, staffVars, scheduleVars, outboxVars, auditVars

LEMMA StampsOnlyRead ==
  ASSUME NEW c \in Calls, Stamps(c)
  PROVE  UNCHANGED <<seat, reclocked, notice, wrote, now, owed, concerned>>
BY DEF Stamps, Reads, staffVars, scheduleVars, outboxVars, auditVars

\* A clock-out that has read the seat has seen a clock-in, and nothing takes a clock-in
\* away; the time the clock-out then takes is no earlier than the stamp of that clock-in.
\* Only a second clock-in can move the stamp later, and it leaves its trace in reclocked.
SeatInOrder(p) ==
  /\ seat[p].in =< now
  /\ seat[p].out # Null => seat[p].in # Null /\ (seat[p].in =< seat[p].out \/ p \in reclocked)
ClockInFits(c) == At(c, "clockIn", "write") => call[c].at =< now
ClockOutFits(c) ==
  /\ call[c].kind = "clockOut" /\ call[c].pc \in {"stamp", "write"}
       => call[c].who \in People /\ seat[call[c].who].in # Null
  /\ At(c, "clockOut", "write")
       => seat[call[c].who].in =< call[c].at \/ call[c].who \in reclocked

ClockInv ==
  /\ \A p \in People : SeatInOrder(p)
  /\ \A c \in Calls : ClockInFits(c) /\ ClockOutFits(c)

\* How a clock-in or clock-out gets to where it is before its write.
LEMMA ClockCalls ==
  ASSUME TypeInv, Next, NEW c \in Calls, call'[c].kind \in {"clockIn", "clockOut"},
         call'[c].pc \in {"stamp", "write"}
  PROVE  \/ call'[c] = call[c]
         \/ ClockRead(c)' /\ UNCHANGED <<seat, reclocked, now>>
         \/ /\ call[c].pc = "stamp" /\ call'[c].pc = "write"
            /\ call'[c].kind = call[c].kind /\ call'[c].who = call[c].who /\ call'[c].at = now
            /\ UNCHANGED <<seat, reclocked, now>>
<1>1. CASE call'[c] = call[c]
  BY <1>1
<1>2. CASE Moves(c)
  <2>1. CASE PlainStart(c) \/ ClockStart(c) \/ SessionStart(c)
    BY <2>1, StartFacts, StartsOnlyRead DEF Started
  <2>2. CASE Stamps(c)
    BY <2>2, StampFacts, StampsOnlyRead
  <2>3. CASE RefreshRevoke(c)
    BY <2>3, RevokeFacts DEF Goes
  <2> QED BY <1>2, <2>1, <2>2, <2>3, NotBeforeWrite DEF Moves
<1> QED BY <1>1, <1>2, CallsMove, OthersStay

\* A step that leaves the stamps alone: time may pass, calls start and take the time.
LEMMA ClockKeptByOthers ==
  ASSUME TypeInv, ClockInv, Next, reclocked' = reclocked,
         \A p \in People : seat'[p].in = seat[p].in /\ seat'[p].out = seat[p].out
  PROVE  ClockInv'
<1>0. now \in Int /\ now' \in Int /\ now =< now'
  <2>1. now \in 0..MaxNow /\ (now' = now \/ now' = now + 1)
    BY FramesHold DEF Frames, Tick, TypeInv, TypeOK
  <2> QED BY <2>1
<1>t. /\ \A p \in People : seat[p].in \in Int /\ seat[p].out \in Int
      /\ \A c \in Calls : call[c].at \in Int
  BY DEF TypeInv, TypeOK, Seat, Stamp, Null, Call
<1>1. ASSUME NEW p \in People PROVE SeatInOrder(p)'
  BY <1>0, <1>1, <1>t DEF ClockInv, SeatInOrder
<1>2. ASSUME NEW c \in Calls PROVE ClockInFits(c)'
  <2> SUFFICES ASSUME At(c, "clockIn", "write")' PROVE call'[c].at =< now'
    BY DEF ClockInFits
  <2>1. CASE call'[c] = call[c]
    BY <1>0, <1>t, <2>1 DEF ClockInv, ClockInFits, At
  <2>2. CASE call'[c] # call[c]
    BY <1>0, <2>2, ClockCalls DEF ClockRead, At
  <2> QED BY <2>1, <2>2
<1>3. ASSUME NEW c \in Calls PROVE ClockOutFits(c)'
  <2> SUFFICES ASSUME call'[c].kind = "clockOut", call'[c].pc \in {"stamp", "write"}
               PROVE  /\ call'[c].who \in People /\ seat'[call'[c].who].in # Null
                      /\ call'[c].pc = "write"
                           => seat'[call'[c].who].in =< call'[c].at \/ call'[c].who \in reclocked'
    BY DEF ClockOutFits, At
  <2>1. CASE call'[c] = call[c]
    BY <1>t, <2>1 DEF ClockInv, ClockOutFits, At
  <2>2. CASE ClockRead(c)' /\ UNCHANGED <<seat, reclocked, now>>
    BY <2>2 DEF ClockRead
  <2>3. CASE /\ call[c].pc = "stamp" /\ call'[c].pc = "write"
             /\ call'[c].kind = call[c].kind /\ call'[c].who = call[c].who /\ call'[c].at = now
    <3>1. call[c].who \in People /\ seat[call[c].who].in # Null
      BY <2>3 DEF ClockInv, ClockOutFits
    <3>2. seat[call[c].who].in =< now
      BY <3>1 DEF ClockInv, SeatInOrder
    <3> QED BY <2>3, <3>1, <3>2
  <2> QED BY <2>1, <2>2, <2>3, ClockCalls
<1> QED BY <1>1, <1>2, <1>3 DEF ClockInv

\* A clock-in that finds a stamp is remembered; one that finds none finds no clock-out
\* either, nor one on its way.
LEMMA ClockInKeeps ==
  ASSUME TypeInv, ClockInv, NEW c \in Calls, ClockInWrite(c)
  PROVE  ClockInv'
<1>0. /\ Writes(c) /\ now' = now /\ call[c].who \in People /\ call[c].at =< now
      /\ call[c].at \in Int /\ call[c].at # Null
  <2>1. call[c].kind = "clockIn" /\ call[c].pc = "write" /\ now' = now
    BY DEF ClockInWrite, At
  <2>2. call[c].who \in People
    BY <2>1 DEF TypeInv, ReadsMakeSense, LookupHasUser
  <2>3. call[c].at \in Int /\ call[c].at # Null
    BY DEF TypeInv, TypeOK, Call, Null
  <2>4. call[c].at =< now
    BY <2>1 DEF ClockInv, ClockInFits, At
  <2> QED BY <2>1, <2>2, <2>3, <2>4, WritersWrite
<1>1. call'[c].pc \notin {"stamp", "write"} /\ \A d \in Calls \ {c} : call'[d] = call[d]
  <2>1. Moves(c)
    BY <1>0 DEF Moves
  <2> QED BY <1>0, <2>1, NotBeforeWrite, OthersStay
<1>2. \A p \in People : /\ seat'[p].out = seat[p].out
                        /\ seat'[p].in = IF p = call[c].who THEN call[c].at ELSE seat[p].in
  BY DEF ClockInWrite, TypeInv, TypeOK, Seat
<1>3. /\ reclocked \subseteq reclocked'
      /\ seat[call[c].who].in # Null => call[c].who \in reclocked'
  BY DEF ClockInWrite
<1>4. ASSUME NEW p \in People PROVE SeatInOrder(p)'
  BY <1>0, <1>2, <1>3 DEF ClockInv, SeatInOrder
<1>5. ASSUME NEW d \in Calls PROVE ClockInFits(d)' /\ ClockOutFits(d)'
  BY <1>0, <1>1, <1>2, <1>3 DEF ClockInv, ClockInFits, ClockOutFits, At
<1> QED BY <1>4, <1>5 DEF ClockInv

LEMMA ClockOutKeeps ==
  ASSUME TypeInv, ClockInv, NEW c \in Calls, ClockOutWrite(c)
  PROVE  ClockInv'
<1>0. /\ Writes(c) /\ now' = now /\ reclocked' = reclocked /\ call[c].who \in People
      /\ seat[call[c].who].in # Null
      /\ seat[call[c].who].in =< call[c].at \/ call[c].who \in reclocked
  BY WritersWrite DEF ClockOutWrite, At, ClockInv, ClockOutFits
<1>1. call'[c].pc \notin {"stamp", "write"} /\ \A d \in Calls \ {c} : call'[d] = call[d]
  <2>1. Moves(c)
    BY <1>0 DEF Moves
  <2> QED BY <1>0, <2>1, NotBeforeWrite, OthersStay
<1>2. \A p \in People : /\ seat'[p].in = seat[p].in
                        /\ seat'[p].out = IF p = call[c].who THEN call[c].at ELSE seat[p].out
  BY DEF ClockOutWrite, TypeInv, TypeOK, Seat
<1>3. ASSUME NEW p \in People PROVE SeatInOrder(p)'
  BY <1>0, <1>2 DEF ClockInv, SeatInOrder
<1>4. ASSUME NEW d \in Calls PROVE ClockInFits(d)' /\ ClockOutFits(d)'
  BY <1>0, <1>1, <1>2 DEF ClockInv, ClockInFits, ClockOutFits, At
<1> QED BY <1>3, <1>4 DEF ClockInv

\* StampsInOrder: whoever has clocked out has clocked in, and no later unless two clock-ins
\* overlapped and one wrote over the other (timeclock.service.ts), for any number of
\* clock-ins and clock-outs of one seat, whatever time passes between their reads, the
\* times they take and their writes, and with rows that shift-assignments.service.ts uses
\* again with their old stamps.
THEOREM StampsAlwaysInOrder == Spec => []StampsInOrder
<1>1. Init => ClockInv
  <2> SUFFICES ASSUME Init PROVE ClockInv
    OBVIOUS
  <2>1. ASSUME NEW p \in People PROVE SeatInOrder(p)
    BY DEF Init, SeatInOrder, Null
  <2>2. \A c \in Calls : call[c].pc = "new"
    BY NoCallFields DEF Init
  <2> QED BY <2>1, <2>2 DEF ClockInv, ClockInFits, ClockOutFits, At
<1>2. TypeInv /\ ClockInv /\ [Next]_vars => ClockInv'
  <2>1. ASSUME TypeInv, ClockInv, Next PROVE ClockInv'
    <3>1. ASSUME NEW c \in Calls, ClockInWrite(c) \/ ClockOutWrite(c) PROVE ClockInv'
      BY <2>1, <3>1, ClockInKeeps, ClockOutKeeps
    <3>2. ASSUME \A c \in Calls : ~ClockInWrite(c) /\ ~ClockOutWrite(c) PROVE ClockInv'
      <4>1. reclocked' = reclocked
        BY <2>1, <3>2, FramesHold DEF Frames
      <4>2. \A p \in People : seat'[p].in = seat[p].in /\ seat'[p].out = seat[p].out
        <5>1. \A q, p \in People, status \in {"ASSIGNED", "CANCELLED"} :
                /\ [seat EXCEPT ![q].status = status][p].in = seat[p].in
                /\ [seat EXCEPT ![q].status = status][p].out = seat[p].out
          BY <2>1 DEF TypeInv, TypeOK, Seat
        <5>2. ASSUME NEW c \in Calls, UnassignWrite(c)
              PROVE  \A p \in People : seat'[p].in = seat[p].in /\ seat'[p].out = seat[p].out
          BY <2>1, <5>2 DEF UnassignWrite, TypeInv, TypeOK, Seat
        <5>3. ASSUME NEW c \in Calls, NEW q \in People, Assign(c, q)
              PROVE  \A p \in People : seat'[p].in = seat[p].in /\ seat'[p].out = seat[p].out
          BY <5>1, <5>3 DEF Assign
        <5> QED BY <2>1, <3>2, <5>2, <5>3, FramesHold DEF Frames, SeatMoves
      <4> QED BY <2>1, <4>1, <4>2, ClockKeptByOthers
    <3> QED BY <3>1, <3>2
  <2>2. ASSUME ClockInv, UNCHANGED vars PROVE ClockInv'
    BY <2>2 DEF ClockInv, SeatInOrder, ClockInFits, ClockOutFits, At, vars, scheduleVars
  <2> QED BY <2>1, <2>2
<1>3. ClockInv => StampsInOrder
  BY DEF ClockInv, SeatInOrder, StampsInOrder
<1>4. Spec => []TypeInv
  BY InitTyped, TypeInvKept, PTL DEF Spec
<1> QED BY <1>1, <1>2, <1>3, <1>4, PTL DEF Spec

-----------------------------------------------------------------------------
(* Sessions *)

\* A step leaves a token as it is, revokes it, lets it expire or issues it.
TokenChanges(t) ==
  \/ token'[t] = token[t]
  \/ /\ token[t].status # "NONE"
     /\ token'[t].status = "REVOKED" /\ token'[t].spent = token[t].spent
  \/ token[t].status = "LIVE" /\ token'[t].status = "EXPIRED" /\ token'[t].spent = token[t].spent
  \/ IssueTokens(t)

LEMMA TokensChange ==
  ASSUME TypeInv, Next, NEW t \in Calls
  PROVE  TokenChanges(t)
<1> USE DEF TokenChanges
<1>0. token \in [Calls -> Token] /\ token[t] \in Token
  BY DEF TypeInv, TypeOK
<1>r. \A x \in Token : Revoked(x).status = "REVOKED" /\ Revoked(x).spent = x.spent
  BY DEF Revoked, Token
<1>1. CASE token' = token
  BY <1>1
<1>2. ASSUME NEW c \in Calls, SetActiveWrite(c) PROVE TokenChanges(t)
  <2>1. token' = token \/ token' = RevokeAllOf(call[c].who)
    BY <1>2 DEF SetActiveWrite
  <2>2. \/ RevokeAllOf(call[c].who)[t] = token[t]
        \/ token[t].status # "NONE" /\ RevokeAllOf(call[c].who)[t] = Revoked(token[t])
    BY DEF RevokeAllOf, Unrevoked
  <2> QED BY <1>0, <1>r, <2>1, <2>2
<1>3. ASSUME NEW c \in Calls, RefreshRevoke(c) PROVE TokenChanges(t)
  <2>1. token[call[c].token].status # "NONE"
    BY <1>3 DEF RefreshRevoke, TypeInv, ReadsMakeSense, RefreshOfRow
  <2> QED BY <1>0, <1>r, <1>3, <2>1 DEF RefreshRevoke
<1>4. ASSUME NEW c \in Calls, IssueTokens(c) PROVE TokenChanges(t)
  BY <1>0, <1>4 DEF IssueTokens
<1>5. ASSUME NEW c \in Calls, TokenExpires(c) PROVE TokenChanges(t)
  <2>1. [token[t] EXCEPT !.status = "EXPIRED"].status = "EXPIRED"
        /\ [token[t] EXCEPT !.status = "EXPIRED"].spent = token[t].spent
    BY <1>0 DEF Token
  <2> QED BY <1>0, <1>5, <2>1 DEF TokenExpires
<1>6. ASSUME NEW u \in Calls, NEW c \in Calls, Logout(c, u) PROVE TokenChanges(t)
  BY <1>0, <1>r, <1>6 DEF Logout
<1> QED BY <1>1, <1>2, <1>3, <1>4, <1>5, <1>6, FramesHold DEF Frames, TokenMoves

\* A call issues one token, as its last step, and has revoked the one it exchanges before.
IssuesLast(c) ==
  /\ token[c].status # "NONE" => call[c].pc \in {"done", "dead"}
  /\ call[c].pc = "issue" =>
       /\ call[c].kind \in {"login", "refresh"}
       /\ \/ call[c].token = 0
          \/ call[c].token \in Calls /\ token[call[c].token].status = "REVOKED"
ExchangedIsSpent(t) == token[t].spent # 0 => token[token[t].spent].status = "REVOKED"

SessionInv == \A c \in Calls : IssuesLast(c) /\ ExchangedIsSpent(c)

LEMMA EndedStays ==
  ASSUME NEW c \in Calls, Moves(c)
  PROVE  call[c].pc \notin {"done", "dead"}
<1>1. CASE PlainStart(c) \/ ClockStart(c) \/ SessionStart(c)
  BY <1>1 DEF PlainStart, ClockStart, SessionStart, OpenWeekStart, UnpublishStart, CreateUserStart,
     UpdateUserStart, SetActiveStart, DecertifyStart, RevokeSkillStart, UnassignStart, ClockInStart,
     ClockOutStart, LoginStart, RefreshStart, Arrives
<1>2. CASE ~(PlainStart(c) \/ ClockStart(c) \/ SessionStart(c))
  BY <1>2 DEF Moves, Stamps, Writes, WritesAtOnce, Ends, InFlight, RefreshRevoke, At, Aftermath, Audit,
     FindRecipients, InsertNotices, Tell
<1> QED BY <1>1, <1>2

LEMMA RevokedForGood ==
  ASSUME TypeInv, SessionInv, Next, NEW t \in Calls, token[t].status = "REVOKED"
  PROVE  token'[t].status = "REVOKED"
BY TokensChange DEF TokenChanges, SessionInv, IssuesLast, IssueTokens

LEMMA SessionKept == TypeInv /\ SessionInv /\ [Next]_vars => SessionInv'
<1>1. ASSUME TypeInv, SessionInv, Next PROVE SessionInv'
  <2> USE <1>1
  <2>1. ASSUME NEW c \in Calls PROVE IssuesLast(c)'
    <3>0. IssuesLast(c)
      BY DEF SessionInv
    <3>1. ASSUME token'[c].status # "NONE" PROVE call'[c].pc \in {"done", "dead"}
      <4>1. CASE IssueTokens(c)
        <5>1. Writes(c) /\ call[c].kind \in {"login", "refresh"}
          BY <3>0, <4>1, WritersWrite DEF IssueTokens, IssuesLast
        <5>2. AfterWrite(call[c].kind) = "done"
          BY <5>1 DEF AfterWrite, Notifying, Audited, OfficeKinds, LooksUp, TellsParties
        <5> QED BY <5>1, <5>2, WriteFacts DEF Goes
      <4>2. CASE ~IssueTokens(c)
        <5>1. token[c].status # "NONE"
          BY <3>1, <4>2, TokensChange DEF TokenChanges
        <5> QED BY <3>0, <5>1, CallsMove, OthersStay, EndedStays DEF IssuesLast
      <4> QED BY <4>1, <4>2
    <3>2. ASSUME call'[c].pc = "issue"
          PROVE  /\ call'[c].kind \in {"login", "refresh"}
                 /\ \/ call'[c].token = 0
                    \/ call'[c].token \in Calls /\ token'[call'[c].token].status = "REVOKED"
      <4>1. CASE call'[c] = call[c]
        BY <3>0, <3>2, <4>1, RevokedForGood DEF IssuesLast
      <4>2. CASE Moves(c)
        <5>1. CASE PlainStart(c) \/ ClockStart(c) \/ SessionStart(c)
          BY <3>2, <5>1, StartFacts DEF Started, SessionRead
        <5>2. CASE RefreshRevoke(c)
          <6>1. /\ Goes(c, "issue") /\ call[c].kind = "refresh" /\ call[c].token \in Calls
            BY <5>2, RevokeFacts DEF RefreshRevoke, At, TypeInv, ReadsMakeSense, SessionHasUser
          <6>2. token'[call[c].token] = Revoked(token[call[c].token]) /\ token[call[c].token] \in Token
            BY <5>2, <6>1 DEF RefreshRevoke, TypeInv, TypeOK
          <6> QED BY <6>1, <6>2, RevokedTyped DEF Goes
        <5>3. CASE Stamps(c)
          BY <3>2, <5>3, StampFacts
        <5> QED BY <3>2, <4>2, <5>1, <5>2, <5>3, NotBeforeWrite DEF Moves
      <4> QED BY <4>1, <4>2, CallsMove, OthersStay
    <3> QED BY <3>1, <3>2 DEF IssuesLast
  <2>2. ASSUME NEW t \in Calls PROVE ExchangedIsSpent(t)'
    <3>0. ExchangedIsSpent(t) /\ IssuesLast(t) /\ token[t].spent \in 0..MaxCalls
      BY DEF SessionInv, TypeInv, TypeOK, Token
    <3>1. token[t].spent # 0 => token[t].spent \in Calls
      BY <3>0 DEF Calls
    <3>2. CASE IssueTokens(t)
      <4>1. token'[t].spent = call[t].token
        BY <3>2 DEF IssueTokens, TypeInv, TypeOK
      <4>2. call[t].token = 0 \/ (call[t].token \in Calls /\ token[call[t].token].status = "REVOKED")
        BY <3>0, <3>2 DEF IssueTokens, IssuesLast
      <4> QED BY <4>1, <4>2, RevokedForGood DEF ExchangedIsSpent
    <3>3. CASE ~IssueTokens(t)
      <4>1. token'[t].spent = token[t].spent
        BY <3>3, TokensChange DEF TokenChanges
      <4> QED BY <3>0, <3>1, <4>1, RevokedForGood DEF ExchangedIsSpent
    <3> QED BY <3>2, <3>3
  <2> QED BY <2>1, <2>2 DEF SessionInv
<1>2. ASSUME SessionInv, UNCHANGED vars PROVE SessionInv'
  BY <1>2 DEF SessionInv, IssuesLast, ExchangedIsSpent, vars, accountVars
<1> QED BY <1>1, <1>2

\* RotationSpendsToken: a refresh token and the one issued in exchange for it are never both
\* usable (auth.service.ts, refresh), however many calls exchange it at once and wherever
\* they die.
THEOREM RotationAlwaysSpends == Spec => []RotationSpendsToken
<1>1. Init => SessionInv
  BY NoCallFields DEF Init, SessionInv, IssuesLast, ExchangedIsSpent, NoToken
<1>2. SessionInv => RotationSpendsToken
  BY DEF SessionInv, ExchangedIsSpent, RotationSpendsToken
<1>3. Spec => []TypeInv
  BY InitTyped, TypeInvKept, PTL DEF Spec
<1> QED BY <1>1, <1>2, <1>3, SessionKept, PTL DEF Spec

\* A step opens or creates an account, leaves it alone, or closes it together with all its
\* tokens.
AccountChanges(p) ==
  \/ deactivated'[p] = deactivated[p] /\ (user'[p].row # "INACTIVE" \/ user'[p].row = user[p].row)
  \/ /\ deactivated'[p] = deactivated[p] + 1
     /\ \A t \in Calls : token'[t].owner = p => token'[t].status # "LIVE"

LEMMA AccountsChange ==
  ASSUME TypeInv, Next, NEW p \in People
  PROVE  AccountChanges(p)
<1> USE DEF AccountChanges
<1>0. /\ user \in [People -> User] /\ user[p] \in User /\ deactivated \in [People -> Nat]
      /\ token \in [Calls -> Token]
  BY DEF TypeInv, TypeOK
<1>1. CASE user' = user /\ deactivated' = deactivated
  BY <1>1
<1>2. ASSUME NEW c \in Calls, SetActiveWrite(c) PROVE AccountChanges(p)
  <2>1. CASE call[c].who # p
    BY <1>0, <1>2, <2>1 DEF SetActiveWrite
  <2>2. CASE call[c].who = p /\ call[c].set = "INACTIVE"
    <3>1. token' = RevokeAllOf(p) /\ deactivated'[p] = deactivated[p] + 1
      BY <1>0, <1>2, <2>2 DEF SetActiveWrite
    <3>2. ASSUME NEW t \in Calls, token'[t].owner = p PROVE token'[t].status # "LIVE"
      <4>1. token[t] \in Token
        BY <1>0
      <4>2. token'[t] = IF token[t].owner = p /\ Unrevoked(token[t]) THEN Revoked(token[t]) ELSE token[t]
        BY <3>1 DEF RevokeAllOf
      <4> QED BY <3>2, <4>1, <4>2, RevokedTyped DEF Unrevoked
    <3> QED BY <3>1, <3>2
  <2>3. CASE call[c].who = p /\ call[c].set # "INACTIVE"
    <3>1. [user EXCEPT ![p].row = call[c].set][p].row = call[c].set
      BY <1>0 DEF User
    <3> QED BY <1>2, <2>3, <3>1 DEF SetActiveWrite
  <2> QED BY <2>1, <2>2, <2>3
<1>3. ASSUME NEW c \in Calls, CreateUserWrite(c) PROVE AccountChanges(p)
  BY <1>0, <1>3 DEF CreateUserWrite, Fails, accountVars
<1>4. ASSUME NEW c \in Calls, UpdateUserWrite(c) PROVE AccountChanges(p)
  BY <1>0, <1>4 DEF UpdateUserWrite, User
<1>5. ASSUME NEW c \in Calls, NEW q \in People, UpdateOwnProfile(c, q) PROVE AccountChanges(p)
  <2>1. PICK channel \in Channels : user' = [user EXCEPT ![q].channel = channel]
    BY <1>5 DEF UpdateOwnProfile
  <2> QED BY <1>0, <1>5, <2>1 DEF UpdateOwnProfile, User
<1> QED BY <1>1, <1>2, <1>3, <1>4, <1>5, FramesHold DEF Frames, UserMoves

LiveTokenIsLate(t) ==
  token[t].status = "LIVE" /\ user[token[t].owner].row = "INACTIVE"
    => token[t].born = deactivated[token[t].owner] /\ token[t].asOf < token[t].born
SessionIsOld(c) ==
  call[c].kind \in {"login", "refresh"} /\ call[c].pc \in {"write", "issue"}
    => /\ call[c].who \in People
       /\ call[c].asOf =< deactivated[call[c].who]
       /\ user[call[c].who].row = "INACTIVE" => call[c].asOf < deactivated[call[c].who]

LateInv == \A c \in Calls : LiveTokenIsLate(c) /\ SessionIsOld(c)

LEMMA LateKept == TypeInv /\ SessionInv /\ LateInv /\ [Next]_vars => LateInv'
<1>1. ASSUME TypeInv, SessionInv, LateInv, Next PROVE LateInv'
  <2> USE <1>1
  <2>t. /\ \A p \in People : deactivated[p] \in Nat
        /\ \A c \in Calls : call[c].asOf \in Nat /\ token[c].asOf \in Nat /\ token[c].born \in Nat
    BY DEF TypeInv, TypeOK, Call, Token
  <2>1. ASSUME NEW c \in Calls PROVE SessionIsOld(c)'
    <3>0. SessionIsOld(c)
      BY DEF LateInv
    <3>1. CASE call'[c] = call[c]
      <4> SUFFICES ASSUME call[c].kind \in {"login", "refresh"}, call[c].pc \in {"write", "issue"}
                   PROVE  /\ call[c].who \in People
                          /\ call[c].asOf =< deactivated'[call[c].who]
                          /\ user'[call[c].who].row = "INACTIVE" => call[c].asOf < deactivated'[call[c].who]
        BY <3>1 DEF SessionIsOld
      <4>1. call[c].who \in People
        BY <3>0 DEF SessionIsOld
      <4>2. AccountChanges(call[c].who)
        BY <4>1, AccountsChange
      <4> QED BY <2>t, <3>0, <4>1, <4>2 DEF SessionIsOld, AccountChanges
    <3>2. CASE Moves(c)
      <4>1. CASE PlainStart(c) \/ ClockStart(c) \/ SessionStart(c)
        <5>1. SessionRead(c)'
          BY <4>1, StartFacts DEF Started
        <5>2. call'[c].kind \in {"login", "refresh"} =>
                /\ call'[c].who \in People /\ user'[call'[c].who].row = "ACTIVE"
                /\ call'[c].asOf = deactivated'[call'[c].who] /\ deactivated' = deactivated
          BY <4>1, <5>1, StartsOnlyRead DEF SessionRead
        <5> QED BY <2>t, <5>2 DEF SessionIsOld
      <4>2. CASE RefreshRevoke(c)
        <5>1. Goes(c, "issue") /\ user' = user /\ deactivated' = deactivated /\ At(c, "refresh", "write")
          BY <4>2, RevokeFacts DEF RefreshRevoke
        <5> QED BY <3>0, <5>1 DEF Goes, SessionIsOld, At
      <4>3. CASE Stamps(c)
        BY <4>3, StampFacts DEF SessionIsOld
      <4> QED BY <3>2, <4>1, <4>2, <4>3, NotBeforeWrite DEF Moves, SessionIsOld
    <3> QED BY <3>1, <3>2, CallsMove, OthersStay
  <2>2. ASSUME NEW t \in Calls PROVE LiveTokenIsLate(t)'
    <3>0. LiveTokenIsLate(t) /\ IssuesLast(t) /\ SessionIsOld(t)
      BY DEF LateInv, SessionInv
    <3>1. CASE IssueTokens(t)
      <4>1. /\ token'[t].owner = call[t].who /\ token'[t].asOf = call[t].asOf
            /\ token'[t].born = deactivated[call[t].who]
            /\ user' = user /\ deactivated' = deactivated
        BY <3>1 DEF IssueTokens, TypeInv, TypeOK
      <4>2. call[t].pc = "issue" /\ call[t].kind \in {"login", "refresh"}
        BY <3>0, <3>1 DEF IssueTokens, IssuesLast
      <4> QED BY <3>0, <4>1, <4>2 DEF LiveTokenIsLate, SessionIsOld
    <3>2. CASE ~IssueTokens(t)
      <4> SUFFICES ASSUME token'[t].status = "LIVE", user'[token'[t].owner].row = "INACTIVE"
                   PROVE  token'[t].born = deactivated'[token'[t].owner] /\ token'[t].asOf < token'[t].born
        BY DEF LiveTokenIsLate
      <4>1. token'[t] = token[t]
        BY <3>2, TokensChange DEF TokenChanges
      <4>2. token[t].owner \in People
        BY <4>1 DEF TypeInv, ReadsMakeSense, TokenHasUser
      <4>3. AccountChanges(token[t].owner)
        BY <4>2, AccountsChange
      <4> QED BY <3>0, <4>1, <4>3 DEF LiveTokenIsLate, AccountChanges
    <3> QED BY <3>1, <3>2
  <2> QED BY <2>1, <2>2 DEF LateInv
<1>2. ASSUME LateInv, UNCHANGED vars PROVE LateInv'
  BY <1>2 DEF LateInv, LiveTokenIsLate, SessionIsOld, vars, accountVars
<1> QED BY <1>1, <1>2

\* OnlyLateTokens: of a closed account only a token survives that was issued on a read from
\* before the account was closed (users.service.ts setActive against auth.service.ts login
\* and refresh).
THEOREM OnlyLateTokensSurvive == Spec => []OnlyLateTokens
<1>1. Init => SessionInv /\ LateInv
  BY NoCallFields DEF Init, SessionInv, LateInv, IssuesLast, ExchangedIsSpent, LiveTokenIsLate, SessionIsOld,
     NoToken
<1>2. LateInv => OnlyLateTokens
  BY DEF LateInv, LiveTokenIsLate, OnlyLateTokens
<1>3. Spec => []TypeInv
  BY InitTyped, TypeInvKept, PTL DEF Spec
<1> QED BY <1>1, <1>2, <1>3, SessionKept, LateKept, PTL DEF Spec

-----------------------------------------------------------------------------
(* What a call has left behind *)

\* A call that is past its write has made it.
WroteInv ==
  \A c \in Calls : call[c].pc \in {"audit", "recipients", "insert", "tell"} => c \in wrote

LEMMA WroteGrows ==
  ASSUME TypeInv, Next
  PROVE  wrote \subseteq wrote'
<1>1. CASE wrote' = wrote
  BY <1>1
<1>2. ASSUME NEW c \in Calls, Moves(c) PROVE wrote \subseteq wrote'
  BY <1>2, StartsOnlyRead, StampFacts, RevokeFacts, AuditFacts, FindFacts, InsertFacts, TellFacts
     DEF Moves, Writes, WritesAtOnce, Ends, Committed, Aftermath
<1> QED BY <1>1, <1>2, CallsMove

LEMMA WroteKept == TypeInv /\ WroteInv /\ [Next]_vars => WroteInv'
<1>1. ASSUME TypeInv, WroteInv, Next, NEW c \in Calls
      PROVE  call'[c].pc \in {"audit", "recipients", "insert", "tell"} => c \in wrote'
  <2>0. /\ wrote \subseteq wrote'
        /\ call[c].pc \in {"audit", "recipients", "insert", "tell"} => c \in wrote
    BY <1>1, WroteGrows DEF WroteInv
  <2>1. CASE call'[c] = call[c]
    BY <2>0, <2>1
  <2>2. CASE PlainStart(c) \/ ClockStart(c) \/ SessionStart(c) \/ Stamps(c)
    BY <1>1, <2>2, StartFacts, StampFacts DEF Started
  <2>3. CASE Writes(c) \/ WritesAtOnce(c)
    BY <2>3 DEF Writes, WritesAtOnce, Committed
  <2>4. CASE Ends(c) \/ RefreshRevoke(c)
    BY <1>1, <2>4, EndFacts, RevokeFacts DEF Goes
  <2>5. CASE Aftermath(c)
    BY <2>0, <2>5 DEF Aftermath, Audit, FindRecipients, InsertNotices, Tell
  <2> QED BY <1>1, <2>1, <2>2, <2>3, <2>4, <2>5, CallsMove, OthersStay DEF Moves
<1>2. ASSUME TypeInv, WroteInv, Next PROVE WroteInv'
  BY <1>1, <1>2 DEF WroteInv
<1>3. ASSUME WroteInv, UNCHANGED vars PROVE WroteInv'
  BY <1>3 DEF WroteInv, vars, auditVars
<1> QED BY <1>2, <1>3

LEMMA WroteInvHolds == Spec => [](TypeInv /\ WroteInv)
<1>1. Init => WroteInv
  BY NoCallFields DEF Init, WroteInv
<1> QED BY <1>1, InitTyped, TypeInvKept, WroteKept, PTL DEF Spec

-----------------------------------------------------------------------------
(* Notifications and mail *)

LEMMA OutboxFrame ==
  ASSUME Next
  PROVE  /\ \/ notice' = notice
            \/ \E c \in Calls : InsertNotices(c) \/ \E p \in People : MarkRead(c, p)
            \/ \E p \in People : MarkAllRead(p)
         /\ mail' = mail \/ \E c \in Calls, p \in People : Tell(c, p) \/ WorkerStep(c, p) \/ StallMail(c, p)
<1> DEFINE Goal ==
       /\ \/ notice' = notice
          \/ \E c \in Calls : InsertNotices(c) \/ \E p \in People : MarkRead(c, p)
          \/ \E p \in People : MarkAllRead(p)
       /\ mail' = mail \/ \E c \in Calls, p \in People : Tell(c, p) \/ WorkerStep(c, p) \/ StallMail(c, p)
<1>1. ASSUME NEW c \in Calls, AccountStep(c) \/ AccountCall(c) PROVE Goal
  BY <1>1 DEF AccountStep, AccountCall, CreateUserWrite, UpdateUserWrite, SetActiveWrite, RefreshRevoke,
     IssueTokens, CreateUserStart, UpdateUserStart, SetActiveStart, UpdateOwnProfile, LoginStart, RefreshStart,
     Logout, Reads, Fails, unlessAccounts, outboxVars
<1>2. ASSUME NEW c \in Calls, OfficeStep(c) PROVE Goal
  BY <1>2 DEF OfficeStep, DecertifyWrite, RevokeSkillWrite, OpenWeekWrite, UnpublishWrite, UnassignWrite,
     ClockInStamp, ClockInWrite, ClockOutStamp, ClockOutWrite, Reads, Fails, outboxVars
<1>3. ASSUME NEW c \in Calls, OfficeCall(c) PROVE Goal
  BY <1>3 DEF OfficeCall, OpenWeekStart, Publish, UnpublishStart, AssignManager, UnassignManager,
     CertifyLocation, DecertifyStart, GrantSkill, RevokeSkillStart, Assign, UnassignStart, ClockInStart,
     ClockOutStart, AcceptOrClaim, Resolve, Reads, outboxVars
<1>4. ASSUME NEW c \in Calls, Aftermath(c) PROVE Goal
  BY <1>4 DEF Aftermath, Audit, FindRecipients, InsertNotices, Tell, outboxVars
<1>5. CASE Around
  <2>1. ASSUME NEW c \in Calls, Die(c) \/ TokenExpires(c) PROVE Goal
    BY <2>1 DEF Die, TokenExpires, unlessAccounts, outboxVars
  <2>2. ASSUME NEW c \in Calls, NEW p \in People, WorkerStep(c, p) \/ StallMail(c, p) PROVE Goal
    BY <2>2 DEF WorkerStep, TakeMail, CompleteMail, StallMail, OnlyMail
  <2>3. ASSUME NEW c \in Calls, NEW p \in People, MarkRead(c, p) PROVE Goal
    BY <2>3 DEF MarkRead
  <2>4. ASSUME NEW p \in People, MarkAllRead(p) PROVE Goal
    BY <2>4 DEF MarkAllRead
  <2>5. CASE Tick
    BY <2>5 DEF Tick, outboxVars
  <2> QED BY <1>5, <2>1, <2>2, <2>3, <2>4, <2>5 DEF Around
<1> QED BY <1>1, <1>2, <1>3, <1>4, <1>5, StepsByCaller

LEMMA NoticesOnlyGrow ==
  ASSUME TypeInv, Next, NEW c \in Calls
  PROVE  Noticed(c)' = Noticed(c) \/ (InsertNotices(c) /\ Noticed(c)' = Noticed(c) \cup call[c].to)
<1> USE DEF Noticed
<1>0. notice \in [Calls -> [People -> {"NONE", "UNREAD", "READ"}]] /\ call[c].to \subseteq People
  BY DEF TypeInv, TypeOK, Call
<1>1. CASE notice' = notice
  BY <1>1
<1>2. ASSUME NEW d \in Calls, InsertNotices(d)
      PROVE  Noticed(c)' = Noticed(c) \/ (InsertNotices(c) /\ Noticed(c)' = Noticed(c) \cup call[c].to)
  <2>1. CASE d # c
    BY <1>0, <1>2, <2>1 DEF InsertNotices
  <2>2. CASE d = c
    <3>1. notice'[c] = [p \in People |-> IF p \in call[c].to THEN "UNREAD" ELSE notice[c][p]]
      BY <1>0, <1>2, <2>2 DEF InsertNotices
    <3> QED BY <1>0, <1>2, <2>2, <3>1
  <2> QED BY <2>1, <2>2
<1>3. ASSUME NEW d \in Calls, NEW q \in People, MarkRead(d, q) PROVE Noticed(c)' = Noticed(c)
  BY <1>0, <1>3 DEF MarkRead
<1>4. ASSUME NEW q \in People, MarkAllRead(q) PROVE Noticed(c)' = Noticed(c)
  <2>1. notice'[c] = [notice[c] EXCEPT ![q] = IF @ = "UNREAD" THEN "READ" ELSE @]
    BY <1>4 DEF MarkAllRead
  <2> QED BY <1>0, <2>1
<1> QED BY <1>1, <1>2, <1>3, <1>4, OutboxFrame

\* A call tells only those it has notified.
TellsNoticed(c) == call[c].pc = "tell" => call[c].to \subseteq Noticed(c)
MailFollows(c) == \A p \in People : mail[c][p].job # "NONE" => c \in wrote /\ p \in Noticed(c)

MailInv == \A c \in Calls : TellsNoticed(c) /\ MailFollows(c)

LEMMA MailsChange ==
  ASSUME TypeInv, Next, NEW c \in Calls, NEW p \in People, mail'[c][p].job # "NONE"
  PROVE  mail[c][p].job # "NONE" \/ Tell(c, p)
<1>0. mail \in [Calls -> [People -> Mail]]
  BY DEF TypeInv, TypeOK
<1>1. CASE mail' = mail
  BY <1>1
<1>2. ASSUME NEW d \in Calls, NEW q \in People, Tell(d, q) PROVE mail[c][p].job # "NONE" \/ Tell(c, p)
  <2>1. CASE d = c /\ q = p
    BY <1>2, <2>1
  <2>2. CASE ~(d = c /\ q = p)
    BY <1>0, <1>2, <2>2 DEF Tell
  <2> QED BY <2>1, <2>2
<1>3. ASSUME NEW d \in Calls, NEW q \in People, WorkerStep(d, q) \/ StallMail(d, q)
      PROVE  mail[c][p].job # "NONE"
  <2>1. mail[d][q].job # "NONE" /\ ((d = c /\ q = p) \/ mail'[c][p] = mail[c][p])
    BY <1>0, <1>3 DEF WorkerStep, TakeMail, CompleteMail, StallMail
  <2> QED BY <2>1
<1> QED BY <1>1, <1>2, <1>3, OutboxFrame

LEMMA MailKept == TypeInv /\ WroteInv /\ MailInv /\ [Next]_vars => MailInv'
<1>1. ASSUME TypeInv, WroteInv, MailInv, Next, NEW c \in Calls PROVE TellsNoticed(c)' /\ MailFollows(c)'
  <2> USE <1>1
  <2>0. /\ TellsNoticed(c) /\ MailFollows(c) /\ Noticed(c) \subseteq Noticed(c)' /\ wrote \subseteq wrote'
    BY NoticesOnlyGrow, WroteGrows DEF MailInv
  <2>1. ASSUME NEW p \in People, mail'[c][p].job # "NONE" PROVE c \in wrote' /\ p \in Noticed(c)'
    <3>1. CASE mail[c][p].job # "NONE"
      BY <2>0, <3>1 DEF MailFollows
    <3>2. CASE Tell(c, p)
      BY <2>0, <3>2 DEF Tell, TellsNoticed, WroteInv
    <3> QED BY <2>1, <3>1, <3>2, MailsChange
  <2>2. ASSUME call'[c].pc = "tell" PROVE call'[c].to \subseteq Noticed(c)'
    <3>1. CASE call'[c] = call[c]
      BY <2>0, <2>2, <3>1 DEF TellsNoticed
    <3>2. CASE PlainStart(c) \/ ClockStart(c) \/ SessionStart(c)
      BY <2>2, <3>2, StartFacts DEF Started
    <3>s. CASE Stamps(c)
      BY <2>2, <3>s, StampFacts
    <3>3. CASE Writes(c)
      BY <2>2, <3>3, WriteFacts, Plans DEF Goes
    <3>4. CASE WritesAtOnce(c)
      <4>1. PICK record \in Call : Committed(c, record)
        BY <3>4 DEF WritesAtOnce
      <4>2. call'[c].pc = AfterWrite(record.kind)
        BY <4>1, CommittedTyped DEF TypeInv
      <4> QED BY <2>2, <4>2, Plans
    <3>5. CASE Ends(c) \/ RefreshRevoke(c)
      BY <2>2, <3>5, EndFacts, RevokeFacts DEF Goes
    <3>6. CASE Audit(c)
      BY <2>2, <3>6, AuditFacts, Plans DEF Goes
    <3>7. CASE FindRecipients(c)
      BY <2>2, <3>7, FindFacts
    <3>8. CASE InsertNotices(c)
      <4>1. Goes(c, IF call[c].to = {} THEN AfterTell(call[c].kind) ELSE "tell")
        BY <3>8, InsertFacts
      <4>2. call'[c].to = call[c].to
        BY <2>2, <4>1 DEF Goes
      <4>3. call[c].to \subseteq Noticed(c)'
        <5>1. notice'[c] = [p \in People |-> IF p \in call[c].to THEN "UNREAD" ELSE notice[c][p]]
          BY <3>8 DEF InsertNotices, TypeInv, TypeOK
        <5>2. call[c].to \subseteq People
          BY DEF TypeInv, TypeOK, Call
        <5> QED BY <5>1, <5>2 DEF Noticed
      <4> QED BY <4>2, <4>3
    <3>9. ASSUME NEW p \in People, Tell(c, p) PROVE call'[c].to \subseteq Noticed(c)'
      BY <2>0, <2>2, <3>9, TellFacts DEF TellsNoticed, Tell
    <3> QED BY <3>1, <3>2, <3>s, <3>3, <3>4, <3>5, <3>6, <3>7, <3>8, <3>9, CallsMove, OthersStay
       DEF Moves, Aftermath
  <2> QED BY <2>1, <2>2 DEF TellsNoticed, MailFollows
<1>2. ASSUME MailInv, UNCHANGED vars PROVE MailInv'
  BY <1>2 DEF MailInv, TellsNoticed, MailFollows, Noticed, vars, outboxVars, auditVars
<1> QED BY <1>1, <1>2 DEF MailInv

\* MailHasNotice: a mail is about a change that was written, and whoever gets it finds the
\* notification in the app (notifications.service.ts, createMany before maybeSendEmail).
THEOREM MailAlwaysHasNotice == Spec => []MailHasNotice
<1>1. Init => MailInv
  BY NoCallFields DEF Init, MailInv, TellsNoticed, MailFollows, NoMail
<1>2. MailInv => MailHasNotice
  BY DEF MailInv, MailFollows, MailHasNotice
<1> QED BY <1>1, <1>2, WroteInvHolds, MailKept, PTL DEF Spec

\* How the people a call concerns change: not at all, with the staff while the call has not
\* looked them up yet, or because the call makes its write.
LookedAt(c) == Audience(call[c].kind, call[c].who, certified, manages)
StaffChanges(c) ==
  \/ owed'[c] = owed[c] /\ concerned'[c] = concerned[c] /\ certified' = certified /\ manages' = manages
  \/ owed'[c] = owed[c] /\ concerned'[c] = concerned[c] /\ ~StillToLookUp(c)
  \/ /\ StillToLookUp(c) /\ call'[c] = call[c]
     /\ owed'[c] = owed[c] \cap LookedAt(c)' /\ concerned'[c] = concerned[c] \cup LookedAt(c)'
  \/ call[c].pc \in {"new", "write"} /\ call'[c].pc \in {"audit", "recipients", "insert", "done"}

LEMMA StaffChange ==
  ASSUME TypeInv, Next, NEW c \in Calls
  PROVE  StaffChanges(c)
<1>0. owed \in [Calls -> SUBSET People] /\ concerned \in [Calls -> SUBSET People]
  BY DEF TypeInv, TypeOK
<1>1. CASE owed' = owed /\ concerned' = concerned /\ certified' = certified /\ manages' = manages
  BY <1>1 DEF StaffChanges
<1>2. ASSUME NEW d \in Calls, Moves(d), call[d].pc \in {"new", "write"}, NEW staff, NEW managers,
             Restaff(staff, managers)
      PROVE  StaffChanges(c)
  <2>1. CASE ~StillToLookUp(c)
    BY <1>0, <1>2, <2>1 DEF Restaff, StaffChanges
  <2>2. CASE StillToLookUp(c)
    <3>1. c # d /\ call'[c] = call[c]
      BY <1>2, <2>2, OthersStay DEF StillToLookUp
    <3>2. LookedAt(c)' = Audience(call[c].kind, call[c].who, staff, managers)
      BY <1>2, <3>1 DEF Restaff, LookedAt
    <3>3. /\ owed'[c] = owed[c] \cap Audience(call[c].kind, call[c].who, staff, managers)
          /\ concerned'[c] = concerned[c] \cup Audience(call[c].kind, call[c].who, staff, managers)
      BY <1>2, <2>2 DEF Restaff
    <3> QED BY <2>2, <3>1, <3>2, <3>3 DEF StaffChanges
  <2> QED BY <2>1, <2>2
<1>3. ASSUME NEW d \in Calls, NEW record \in Call, Committed(d, record), call[d].pc \in {"new", "write"},
             NEW sure, NEW possible, Concerns(d, sure, possible)
      PROVE  StaffChanges(c)
  <2>1. CASE d = c
    <3>1. call'[c].pc = AfterWrite(record.kind)
      BY <1>3, <2>1, CommittedTyped DEF TypeInv
    <3> QED BY <1>3, <2>1, <3>1, Plans DEF StaffChanges
  <2>2. CASE d # c
    BY <1>0, <1>3, <2>2 DEF Concerns, StaffChanges
  <2> QED BY <2>1, <2>2
<1>4. ASSUME NEW d \in Calls, DecertifyWrite(d) PROVE StaffChanges(c)
  <2>1. call[d].pc = "write" /\ Committed(d, call[d]) /\ Moves(d)
    <3>1. call[d].pc = "write" /\ call[d].kind = "decertify" /\ Committed(d, call[d])
      BY <1>4 DEF DecertifyWrite, At
    <3>2. Concerned(d, call[d])
      BY <1>4, <3>1, RestaffOthers, UnconcernedKinds DEF DecertifyWrite, LooksUp, TellsParties
    <3> QED BY <3>1, <3>2 DEF Moves, Writes, TellsParties, WeekKinds
  <2> QED BY <1>2, <1>4, <2>1 DEF DecertifyWrite
<1>5. ASSUME NEW d \in Calls, UnpublishWrite(d) \/ UnassignWrite(d) PROVE StaffChanges(c)
  <2>1. call[d] \in Call /\ Committed(d, call[d]) /\ call[d].pc = "write"
    BY <1>5 DEF UnpublishWrite, UnassignWrite, At, TypeInv, TypeOK
  <2> QED BY <1>3, <1>5, <2>1 DEF UnpublishWrite, UnassignWrite
<1>6. ASSUME NEW d \in Calls, Publish(d) PROVE StaffChanges(c)
  <2>1. [NoCall EXCEPT !.kind = "publish"] \in Call
    BY NoCallTyped DEF Call, Kinds, OfficeKinds
  <2> QED BY <1>3, <1>6, <2>1 DEF Publish, Arrives
<1>7. ASSUME NEW d \in Calls, NEW p \in People,
             AssignManager(d, p) \/ UnassignManager(d, p) \/ CertifyLocation(d, p)
      PROVE  StaffChanges(c)
  <2>1. call[d].pc = "new"
    BY <1>7 DEF AssignManager, UnassignManager, CertifyLocation, Arrives
  <2>2. CASE StillToLookUp(c)
    <3>1. d # c
      BY <2>1, <2>2 DEF StillToLookUp
    <3>2. \A kind \in {"assignManager", "unassignManager", "certify"} : [NoCall EXCEPT !.kind = kind] \in Call
      BY NoCallTyped DEF Call, Kinds, OfficeKinds
    <3>3. call'[c] = call[c]
      BY <1>7, <3>1, <3>2, CommittedTyped DEF AssignManager, UnassignManager, CertifyLocation, TypeInv
    <3>4. PICK staff \in SUBSET People, managers \in SUBSET People : Restaff(staff, managers)
      <4>1. certified \subseteq People /\ manages \subseteq People
        BY DEF TypeInv, TypeOK
      <4>2. /\ certified \cup {p} \in SUBSET People /\ manages \cup {p} \in SUBSET People
            /\ manages \ {p} \in SUBSET People /\ certified \in SUBSET People /\ manages \in SUBSET People
        BY <4>1
      <4> QED BY <1>7, <4>2 DEF AssignManager, UnassignManager, CertifyLocation
    <3>5. LookedAt(c)' = Audience(call[c].kind, call[c].who, staff, managers)
      BY <3>3, <3>4 DEF Restaff, LookedAt
    <3>6. /\ owed'[c] = owed[c] \cap Audience(call[c].kind, call[c].who, staff, managers)
          /\ concerned'[c] = concerned[c] \cup Audience(call[c].kind, call[c].who, staff, managers)
      BY <2>2, <3>4 DEF Restaff
    <3> QED BY <2>2, <3>3, <3>5, <3>6 DEF StaffChanges
  <2>3. CASE ~StillToLookUp(c)
    BY <1>0, <1>7, <2>3 DEF AssignManager, UnassignManager, CertifyLocation, Restaff, StaffChanges
  <2> QED BY <2>2, <2>3
<1>8. ASSUME NEW d \in Calls, NEW p \in People, AcceptOrClaim(d, p) PROVE StaffChanges(c)
  <2>1. PICK kind \in {"accept", "claim"} :
          Arrives(d, kind) /\ Committed(d, [NoCall EXCEPT !.kind = kind, !.who = p])
    BY <1>8 DEF AcceptOrClaim
  <2>2. [NoCall EXCEPT !.kind = kind, !.who = p] \in Call
    BY NoCallTyped DEF Call, Kinds, SwapKinds
  <2> QED BY <1>3, <1>8, <2>1, <2>2 DEF AcceptOrClaim, Arrives
<1>9. ASSUME NEW d \in Calls, NEW p \in People, NEW q \in People, Resolve(d, p, q) PROVE StaffChanges(c)
  <2>1. PICK kind \in TellsParties : \E to \in Told(kind, p, q) :
          /\ Arrives(d, kind) /\ Committed(d, [NoCall EXCEPT !.kind = kind, !.to = to])
          /\ Concerns(d, to, to)
    BY <1>9 DEF Resolve
  <2> PICK to \in Told(kind, p, q) :
          /\ Arrives(d, kind) /\ Committed(d, [NoCall EXCEPT !.kind = kind, !.to = to])
          /\ Concerns(d, to, to)
    BY <2>1
  <2>2. to \in SUBSET People /\ kind \in Kinds
    BY <2>1 DEF TellsParties, Told, Kinds, SwapKinds
  <2>3. [NoCall EXCEPT !.kind = kind, !.to = to] \in Call
    BY <2>2, NoCallTyped DEF Call
  <2> QED BY <1>3, <2>1, <2>3 DEF Arrives
<1> QED BY <1>1, <1>4, <1>5, <1>6, <1>7, <1>8, <1>9, FramesHold DEF Frames, StaffMoves

\* What a call has promised to tell, by its place: nothing before the write; whom it will look
\* up lies between those concerned all the time and those concerned at some time; so do
\* those it has found, and in the end those it has notified.
NotYetNoticed(c) ==
  \/ call[c].pc \in {"new", "stamp", "write", "issue", "recipients", "insert"}
  \/ call[c].pc = "audit" /\ call[c].kind # "expire"
HasFound(c) ==
  \/ call[c].pc = "insert"
  \/ call[c].pc = "audit" /\ call[c].kind \in TellsParties \ {"expire"}
HasNoticed(c) ==
  \/ call[c].pc \in {"tell", "done"}
  \/ call[c].pc = "audit" /\ call[c].kind = "expire"

ToldRight(c) ==
  /\ NotYetNoticed(c) => Noticed(c) = {}
  /\ call[c].pc \in {"new", "stamp", "write", "issue"} => owed[c] = {}
  /\ call[c].kind \notin LooksUp \cup TellsParties => owed[c] = {}
  /\ StillToLookUp(c) =>
       /\ owed[c] \subseteq LookedAt(c) /\ LookedAt(c) \subseteq concerned[c]
       /\ call[c].kind = "unassign" => owed[c] = {}
  /\ HasFound(c) => owed[c] \subseteq call[c].to /\ call[c].to \subseteq concerned[c]
  /\ HasNoticed(c) => owed[c] \subseteq Noticed(c)
  /\ Noticed(c) \subseteq concerned[c]

ToldInv == \A c \in Calls : ToldRight(c)

\* A call that stays where it is.
LEMMA ToldWhileWaiting ==
  ASSUME TypeInv, ToldInv, Next, NEW c \in Calls, call'[c] = call[c]
  PROVE  ToldRight(c)'
<1>0. ToldRight(c) /\ StaffChanges(c)
  BY StaffChange DEF ToldInv
<1>1. Noticed(c)' = Noticed(c)
  <2>1. ~InsertNotices(c)
    <3>1. ASSUME InsertNotices(c) PROVE FALSE
      <4>1. call[c].pc = "insert" /\ call'[c].pc \in {"tell", AfterTell(call[c].kind)}
        BY <3>1, InsertFacts DEF InsertNotices, Goes
      <4> QED BY <4>1, Plans
    <3> QED BY <3>1
  <2> QED BY <2>1, NoticesOnlyGrow
<1>2. /\ NotYetNoticed(c)' <=> NotYetNoticed(c)
      /\ StillToLookUp(c)' <=> StillToLookUp(c)
      /\ HasFound(c)' <=> HasFound(c)
      /\ HasNoticed(c)' <=> HasNoticed(c)
  BY DEF NotYetNoticed, StillToLookUp, HasFound, HasNoticed
<1>3. CASE owed'[c] = owed[c] /\ concerned'[c] = concerned[c] /\ certified' = certified /\ manages' = manages
  <2>1. LookedAt(c)' = LookedAt(c)
    BY <1>3 DEF LookedAt
  <2> QED BY <1>0, <1>1, <1>2, <1>3, <2>1 DEF ToldRight
<1>4. CASE owed'[c] = owed[c] /\ concerned'[c] = concerned[c] /\ ~StillToLookUp(c)
  BY <1>0, <1>1, <1>2, <1>4 DEF ToldRight
<1>5. CASE /\ StillToLookUp(c)
           /\ owed'[c] = owed[c] \cap LookedAt(c)' /\ concerned'[c] = concerned[c] \cup LookedAt(c)'
  <2>1. ~HasFound(c) /\ ~HasNoticed(c) /\ call[c].pc \notin {"new", "stamp", "write", "issue"}
    BY <1>5 DEF HasFound, HasNoticed, StillToLookUp, LooksUp, TellsParties
  <2>2. call[c].kind \in LooksUp
    BY <1>5 DEF StillToLookUp
  <2>3. owed'[c] \subseteq LookedAt(c)' /\ LookedAt(c)' \subseteq concerned'[c]
    BY <1>5
  <2>4. owed'[c] \subseteq owed[c] /\ concerned[c] \subseteq concerned'[c]
    BY <1>5
  <2>5. (call[c].kind = "unassign" => owed'[c] = {}) /\ Noticed(c)' \subseteq concerned'[c]
    <3>1. (call[c].kind = "unassign" => owed[c] = {}) /\ Noticed(c) \subseteq concerned[c]
      BY <1>0, <1>5 DEF ToldRight
    <3> QED BY <1>1, <2>4, <3>1
  <2>6. NotYetNoticed(c)' => Noticed(c)' = {}
    BY <1>0, <1>1, <1>2 DEF ToldRight
  <2> QED BY <1>2, <2>1, <2>2, <2>3, <2>5, <2>6 DEF ToldRight
<1> QED BY <1>0, <1>3, <1>4, <1>5 DEF StaffChanges

\* A write: nobody is notified yet, and those it concerns are those the call knows or will
\* look up.
LEMMA ToldAfterWrite ==
  ASSUME TypeInv, ToldInv, Next, NEW c \in Calls, NEW record \in Call, Concerned(c, record),
         call[c].pc \in {"new", "stamp", "write", "issue"}, record.kind \in Kinds,
         call'[c].kind = record.kind, call'[c].pc = AfterWrite(record.kind),
         AfterWrite(record.kind) # "done" => call'[c].who = record.who /\ call'[c].to = record.to,
         record.kind \in {"publish", "unpublish"} => call[c].pc # "issue"
  PROVE  ToldRight(c)'
<1>0. /\ Noticed(c) = {} /\ owed[c] = {}
      /\ owed \in [Calls -> SUBSET People] /\ concerned \in [Calls -> SUBSET People]
  BY DEF ToldInv, ToldRight, NotYetNoticed, TypeInv, TypeOK
<1>1. Noticed(c)' = {}
  BY <1>0, NoticesOnlyGrow DEF InsertNotices
<1>2. CASE record.kind \in {"publish", "unpublish"}
  <2>1. call'[c].pc = "audit"
    BY <1>2 DEF AfterWrite, Audited, OfficeKinds
  <2>2. owed'[c] = certified /\ concerned'[c] = certified /\ certified' = certified /\ manages' = manages
    BY <1>0, <1>2 DEF Concerned, Concerns
  <2>3. LookedAt(c)' = certified
    BY <1>2, <2>2 DEF LookedAt, Audience
  <2> QED BY <1>1, <1>2, <2>1, <2>2, <2>3 DEF ToldRight, NotYetNoticed, StillToLookUp, HasFound, HasNoticed,
     LooksUp, TellsParties
<1>3. CASE record.kind \in {"accept", "claim"}
  <2>1. call'[c].pc = "recipients" /\ call'[c].who = record.who
    BY <1>3, Plans
  <2>2. /\ owed'[c] = manages \cup {record.who} /\ concerned'[c] = manages \cup {record.who}
        /\ certified' = certified /\ manages' = manages
    BY <1>0, <1>3 DEF Concerned, Concerns
  <2>3. LookedAt(c)' = manages \cup {record.who}
    BY <1>3, <2>1, <2>2 DEF LookedAt, Audience
  <2> QED BY <1>1, <1>3, <2>1, <2>2, <2>3 DEF ToldRight, NotYetNoticed, StillToLookUp, HasFound, HasNoticed,
     LooksUp, TellsParties
<1>4. CASE record.kind = "unassign"
  <2>1. call'[c].pc = "audit"
    BY <1>4, Plans
  <2>2. owed'[c] = {} /\ concerned'[c] = People
    BY <1>0, <1>4 DEF Concerned, Concerns
  <2>3. LookedAt(c)' = People
    BY <1>4 DEF LookedAt, Audience
  <2> QED BY <1>1, <1>4, <2>1, <2>2, <2>3 DEF ToldRight, NotYetNoticed, StillToLookUp, HasFound, HasNoticed,
     LooksUp, TellsParties
<1>5. CASE record.kind \in TellsParties
  <2>1. AfterWrite(record.kind) = IF record.kind \in Audited \ {"expire"} THEN "audit" ELSE "insert"
    BY <1>5 DEF AfterWrite, Notifying, TellsParties, LooksUp
  <2>2. record.kind = "expire" => call'[c].pc = "insert"
    BY <2>1
  <2>3. owed'[c] = record.to /\ concerned'[c] = record.to /\ call'[c].to = record.to
    BY <1>0, <1>5, <2>1 DEF Concerned, Concerns
  <2> QED BY <1>1, <1>5, <2>1, <2>2, <2>3 DEF ToldRight, NotYetNoticed, StillToLookUp, HasFound, HasNoticed,
     LooksUp, TellsParties
<1>6. CASE record.kind \notin LooksUp \cup TellsParties
  <2>1. AfterWrite(record.kind) \in {"audit", "done"}
    BY <1>6 DEF AfterWrite, Notifying
  <2>2. owed'[c] = {}
    BY <1>0, <1>6 DEF Concerned
  <2> QED BY <1>1, <1>6, <2>1, <2>2 DEF ToldRight, NotYetNoticed, StillToLookUp, HasFound, HasNoticed,
     LooksUp, TellsParties
<1> QED BY <1>2, <1>3, <1>4, <1>5, <1>6 DEF LooksUp

\* The steps after the write; none of them changes who is concerned.
LEMMA ToldAfterwards ==
  ASSUME TypeInv, ToldInv, Next, NEW c \in Calls, Aftermath(c)
  PROVE  ToldRight(c)'
<1>0. /\ ToldRight(c)
      /\ owed' = owed /\ concerned' = concerned /\ certified' = certified /\ manages' = manages
  BY DEF ToldInv, Aftermath, Audit, FindRecipients, InsertNotices, Tell, staffVars
<1> USE DEF ToldRight, NotYetNoticed, StillToLookUp, HasFound, HasNoticed
<1>1. CASE Audit(c)
  <2>0. call[c].pc = "audit" /\ Noticed(c)' = Noticed(c)
    BY <1>1, NoticesOnlyGrow DEF Audit, InsertNotices
  <2>1. Goes(c, AfterAudit(call[c].kind))
    BY <1>1, AuditFacts
  <2>2. CASE call[c].kind = "expire"
    <3>1. call'[c].pc = "done" /\ call'[c].kind = call[c].kind
      BY <2>1, <2>2 DEF AfterAudit, Goes
    <3> QED BY <1>0, <2>0, <2>2, <3>1 DEF LooksUp, TellsParties
  <2>3. CASE call[c].kind \in LooksUp
    <3>1. /\ call'[c].pc = "recipients" /\ call'[c].kind = call[c].kind /\ call'[c].who = call[c].who
      BY <2>1, <2>3 DEF AfterAudit, Notifying, Goes, LooksUp
    <3>2. LookedAt(c)' = LookedAt(c)
      BY <1>0, <3>1 DEF LookedAt
    <3> QED BY <1>0, <2>0, <2>3, <3>1, <3>2 DEF LooksUp, TellsParties
  <2>4. CASE call[c].kind \in TellsParties \ {"expire"}
    <3>1. /\ call'[c].pc = "insert" /\ call'[c].kind = call[c].kind /\ call'[c].to = call[c].to
      BY <2>1, <2>4 DEF AfterAudit, Notifying, Goes, LooksUp, TellsParties
    <3> QED BY <1>0, <2>0, <2>4, <3>1 DEF LooksUp, TellsParties
  <2>5. CASE call[c].kind \notin LooksUp \cup TellsParties
    <3>1. call'[c].pc = "done" /\ call'[c].kind = call[c].kind
      BY <2>1, <2>5 DEF AfterAudit, Notifying, Goes
    <3> QED BY <1>0, <2>0, <2>5, <3>1 DEF LooksUp, TellsParties
  <2> QED BY <2>2, <2>3, <2>4, <2>5
<1>2. CASE FindRecipients(c)
  <2>0. call[c].pc = "recipients" /\ call[c].kind \in LooksUp /\ Noticed(c)' = Noticed(c)
    BY <1>2, NoticesOnlyGrow DEF FindRecipients, InsertNotices, TypeInv, ReadsMakeSense, LookupHasUser
  <2>1. /\ call'[c].kind = call[c].kind /\ call'[c].pc = "insert" /\ call'[c].to \subseteq People
        /\ call[c].kind # "unassign" => call'[c].to = LookedAt(c)
    BY <1>2, FindFacts DEF LookedAt
  <2>2. owed[c] \subseteq call'[c].to /\ call'[c].to \subseteq concerned[c]
    <3>0. /\ owed[c] \subseteq LookedAt(c) /\ LookedAt(c) \subseteq concerned[c]
          /\ call[c].kind = "unassign" => owed[c] = {}
      BY <1>0, <2>0
    <3>1. CASE call[c].kind = "unassign"
      <4>1. LookedAt(c) = People
        BY <3>1 DEF LookedAt, Audience
      <4> QED BY <2>1, <3>0, <3>1, <4>1
    <3>2. CASE call[c].kind # "unassign"
      BY <2>1, <3>0, <3>2
    <3> QED BY <3>1, <3>2
  <2> QED BY <1>0, <2>0, <2>1, <2>2
<1>3. CASE InsertNotices(c)
  <2>0. call[c].pc = "insert" /\ call[c].to \subseteq People
    BY <1>3 DEF InsertNotices, TypeInv, TypeOK, Call
  <2>1. call'[c].kind = call[c].kind /\ call'[c].pc \in {"tell", AfterTell(call[c].kind)}
    BY <1>3, InsertFacts DEF Goes
  <2>2. Noticed(c)' = call[c].to
    <3>1. notice'[c] = [p \in People |-> IF p \in call[c].to THEN "UNREAD" ELSE notice[c][p]]
      BY <1>3 DEF InsertNotices, TypeInv, TypeOK
    <3>2. Noticed(c) = {}
      BY <1>0, <2>0
    <3> QED BY <2>0, <3>1, <3>2 DEF Noticed
  <2>3. AfterTell(call[c].kind) = IF call[c].kind = "expire" THEN "audit" ELSE "done"
    BY Plans
  <2> QED BY <1>0, <2>0, <2>1, <2>2, <2>3 DEF LooksUp, TellsParties
<1>4. ASSUME NEW p \in People, Tell(c, p) PROVE ToldRight(c)'
  <2>0. call[c].pc = "tell" /\ Noticed(c)' = Noticed(c)
    BY <1>4, NoticesOnlyGrow DEF Tell, InsertNotices
  <2>1. call'[c].kind = call[c].kind /\ call'[c].pc \in {"tell", AfterTell(call[c].kind)}
    BY <1>4, TellFacts
  <2>2. AfterTell(call[c].kind) = IF call[c].kind = "expire" THEN "audit" ELSE "done"
    BY Plans
  <2> QED BY <1>0, <2>0, <2>1, <2>2 DEF LooksUp, TellsParties
<1> QED BY <1>1, <1>2, <1>3, <1>4 DEF Aftermath

LEMMA ToldKept == TypeInv /\ ToldInv /\ [Next]_vars => ToldInv'
<1>1. ASSUME TypeInv, ToldInv, Next, NEW c \in Calls PROVE ToldRight(c)'
  <2> USE <1>1
  <2>0. ToldRight(c) /\ StaffChanges(c) /\ call[c] \in Call
    BY StaffChange DEF ToldInv, TypeInv, TypeOK
  <2>1. CASE call'[c] = call[c]
    BY <2>1, ToldWhileWaiting
  <2>2. CASE PlainStart(c) \/ ClockStart(c) \/ SessionStart(c)
    <3>1. call[c].pc = "new" /\ call'[c].pc \in {"stamp", "write", "issue"}
          /\ UNCHANGED <<notice, owed, concerned>>
      BY <2>2, StartFacts, StartsOnlyRead DEF Started
    <3> QED BY <2>0, <3>1 DEF ToldRight, NotYetNoticed, StillToLookUp, HasFound, HasNoticed, Noticed
  <2>s. CASE Stamps(c)
    <3>1. call[c].pc = "stamp" /\ call'[c].pc = "write" /\ call'[c].kind = call[c].kind
      BY <2>s, StampFacts
    <3>2. UNCHANGED <<notice, owed, concerned>>
      BY <2>s, StampsOnlyRead
    <3> QED BY <2>0, <3>1, <3>2 DEF ToldRight, NotYetNoticed, StillToLookUp, HasFound, HasNoticed, Noticed
  <2>3. CASE Writes(c)
    <3>1. /\ Goes(c, AfterWrite(call[c].kind)) /\ call[c].pc \in {"write", "issue"} /\ Concerned(c, call[c])
          /\ AfterWrite(call[c].kind) \notin {"dead"}
      BY <2>3, WriteFacts, Plans DEF Writes
    <3>2. call[c].kind \in Kinds \/ call[c].kind = "none"
      BY <2>0 DEF Call
    <3>3. CASE call[c].kind = "none"
      <4>1. call'[c].pc = "done" /\ call'[c].kind = "none"
        BY <3>1, <3>3 DEF Goes, AfterWrite, Notifying, Audited, OfficeKinds, LooksUp, TellsParties
      <4>2. owed'[c] = owed[c] /\ concerned'[c] = concerned[c]
        BY <3>1, <3>3 DEF Concerned, LooksUp, TellsParties
      <4>3. Noticed(c)' = Noticed(c)
        BY <3>1, NoticesOnlyGrow DEF InsertNotices
      <4> QED BY <2>0, <3>1, <4>1, <4>2, <4>3
         DEF ToldRight, NotYetNoticed, StillToLookUp, HasFound, HasNoticed, LooksUp, TellsParties
    <3>4. CASE call[c].kind \in Kinds
      <4>1. call[c].kind \in {"publish", "unpublish"} => call[c].pc # "issue"
        BY DEF TypeInv, ReadsMakeSense, SessionHasUser
      <4> QED BY <2>0, <3>1, <3>4, <4>1, ToldAfterWrite DEF Goes
    <3> QED BY <3>2, <3>3, <3>4
  <2>4. CASE WritesAtOnce(c)
    <3>1. PICK record \in Call : Committed(c, record) /\ Concerned(c, record) /\ record.kind \in Kinds
      BY <2>4 DEF WritesAtOnce
    <3>2. /\ call'[c].kind = record.kind /\ call'[c].pc = AfterWrite(record.kind)
          /\ AfterWrite(record.kind) # "done" => call'[c] = [record EXCEPT !.pc = AfterWrite(record.kind)]
      BY <3>1, CommittedTyped DEF TypeInv
    <3>3. /\ [record EXCEPT !.pc = AfterWrite(record.kind)].who = record.who
          /\ [record EXCEPT !.pc = AfterWrite(record.kind)].to = record.to
      BY DEF Call
    <3>4. call[c].pc = "new"
      BY <2>4 DEF WritesAtOnce
    <3> QED BY <3>1, <3>2, <3>3, <3>4, ToldAfterWrite
  <2>5. CASE Ends(c) \/ RefreshRevoke(c)
    <3>1. /\ call'[c].kind = call[c].kind
          /\ call'[c].pc = "dead" \/ (call'[c].pc = "issue" /\ call[c].pc = "write")
      BY <2>5, EndFacts, RevokeFacts DEF Goes, RefreshRevoke, At
    <3>2. call[c].pc # "dead"
      BY <2>5 DEF Ends, InFlight, RefreshRevoke, At
    <3>3. owed'[c] = owed[c] /\ concerned'[c] = concerned[c]
      BY <2>0, <3>1, <3>2 DEF StaffChanges
    <3>4. Noticed(c)' = Noticed(c)
      <4>1. ~InsertNotices(c)
        <5>1. ASSUME InsertNotices(c) PROVE FALSE
          <6>1. call[c].pc = "insert" /\ call'[c].pc \in {"tell", AfterTell(call[c].kind)}
            BY <5>1, InsertFacts DEF InsertNotices, Goes
          <6> QED BY <3>1, <6>1, Plans
        <5> QED BY <5>1
      <4> QED BY <4>1, NoticesOnlyGrow
    <3>5. call'[c].pc = "issue" => Noticed(c) = {} /\ owed[c] = {}
      BY <2>0, <3>1 DEF ToldRight, NotYetNoticed
    <3> QED BY <2>0, <3>1, <3>3, <3>4, <3>5
       DEF ToldRight, NotYetNoticed, StillToLookUp, HasFound, HasNoticed
  <2>6. CASE Aftermath(c)
    BY <2>6, ToldAfterwards
  <2> QED BY <2>1, <2>2, <2>s, <2>3, <2>4, <2>5, <2>6, CallsMove, OthersStay DEF Moves
<1>2. ASSUME ToldInv, UNCHANGED vars PROVE ToldInv'
  BY <1>2 DEF ToldInv, ToldRight, NotYetNoticed, StillToLookUp, HasFound, HasNoticed, Noticed, LookedAt,
     vars, staffVars, outboxVars
<1> QED BY <1>1, <1>2 DEF ToldInv

\* RightPeopleTold: who is certified (or manages the location) from a change to the end of
\* its call is notified, and nobody who was not so at any time in between, although the
\* recipients are read after the write and outside of it (schedule-weeks.service.ts publish,
\* swaps.service.ts notifyManagersAndInitiator).
THEOREM RightPeopleAlwaysTold == Spec => []RightPeopleTold
<1>1. Init => ToldInv
  BY NoCallFields DEF Init, ToldInv, ToldRight, NotYetNoticed, StillToLookUp, HasFound, HasNoticed, Noticed
<1>2. ToldInv => RightPeopleTold
  BY DEF ToldInv, ToldRight, HasNoticed, RightPeopleTold
<1>3. Spec => []TypeInv
  BY InitTyped, TypeInvKept, PTL DEF Spec
<1> QED BY <1>1, <1>2, <1>3, ToldKept, PTL DEF Spec

-----------------------------------------------------------------------------
(* The week *)

\* Who has written is past the write, and the week exists as soon as somebody has opened it.
WeekInv ==
  /\ \A c \in wrote : call[c].pc \notin {"new", "stamp", "write", "issue"}
  /\ \A c \in wrote : call[c].kind = "open" => week # "NONE"
  /\ CreatedOnce

\* What a call that has written does next leaves its kind alone, and only one that finds no
\* week writes one.
LEMMA WrittenStays ==
  ASSUME TypeInv, WeekInv, NEW c \in Calls, Moves(c)
  PROVE  /\ wrote' \subseteq wrote \cup {c}
         /\ c \in wrote' => call'[c].pc \notin {"new", "stamp", "write", "issue"}
         /\ c \in wrote => call'[c].kind = call[c].kind
         /\ c \in wrote' \ wrote /\ call'[c].kind = "open" => week = "NONE" /\ week' # "NONE"
<1>0. c \in wrote => call[c].pc \notin {"new", "stamp", "write", "issue"}
  BY DEF WeekInv
<1>1. CASE PlainStart(c) \/ ClockStart(c) \/ SessionStart(c) \/ Stamps(c)
  BY <1>0, <1>1, StartFacts, StampFacts
<1>2. CASE Writes(c)
  BY <1>0, <1>2, WriteFacts, NotBeforeWrite DEF Goes, Writes
<1>3. CASE WritesAtOnce(c)
  <2>1. PICK record \in Call : Committed(c, record) /\ record.kind # "open"
    BY <1>3 DEF WritesAtOnce
  <2>2. call'[c].kind = record.kind /\ wrote' = wrote \cup {c}
    BY <2>1, CommittedTyped DEF TypeInv, Committed
  <2> QED BY <1>0, <1>3, <2>1, <2>2, NotBeforeWrite DEF WritesAtOnce
<1>4. CASE Ends(c)
  BY <1>4, EndFacts, NotBeforeWrite DEF Goes, Ends
<1>5. CASE RefreshRevoke(c)
  BY <1>0, <1>5, RevokeFacts DEF RefreshRevoke, At
<1>6. CASE Aftermath(c)
  <2>1. call'[c].kind = call[c].kind /\ wrote' = wrote
    BY <1>6, AuditFacts, FindFacts, InsertFacts, TellFacts DEF Aftermath, Goes
  <2> QED BY <1>6, <2>1, NotBeforeWrite
<1> QED BY <1>1, <1>2, <1>3, <1>4, <1>5, <1>6 DEF Moves

LEMMA WeekKept == TypeInv /\ WeekInv /\ [Next]_vars => WeekInv'
<1>1. ASSUME TypeInv, WeekInv, Next PROVE WeekInv'
  <2>1. week # "NONE" => week' # "NONE"
    BY <1>1, FramesHold DEF Frames
  <2>2. wrote \subseteq Calls
    BY <1>1 DEF TypeInv, TypeOK
  <2>3. CASE call' = call /\ wrote' = wrote
    BY <1>1, <2>1, <2>3 DEF WeekInv, CreatedOnce
  <2>4. ASSUME NEW c \in Calls, Moves(c) PROVE WeekInv'
    <3>1. \A d \in Calls \ {c} : call'[d] = call[d]
      BY <1>1, <2>4, OthersStay
    <3>2. /\ wrote' \subseteq wrote \cup {c}
          /\ c \in wrote' => call'[c].pc \notin {"new", "stamp", "write", "issue"}
          /\ c \in wrote => call'[c].kind = call[c].kind
          /\ c \in wrote' \ wrote /\ call'[c].kind = "open" => week = "NONE" /\ week' # "NONE"
      BY <1>1, <2>4, WrittenStays
    <3>3. \A d \in wrote' : call'[d].pc \notin {"new", "stamp", "write", "issue"}
      BY <1>1, <2>2, <3>1, <3>2 DEF WeekInv
    <3>4. \A d \in wrote' : call'[d].kind = "open" => week' # "NONE"
      BY <1>1, <2>1, <2>2, <3>1, <3>2 DEF WeekInv
    <3>5. CreatedOnce'
      BY <1>1, <2>2, <3>1, <3>2 DEF WeekInv, CreatedOnce
    <3> QED BY <3>3, <3>4, <3>5 DEF WeekInv
  <2> QED BY <1>1, <2>3, <2>4, CallsMove
<1>2. ASSUME WeekInv, UNCHANGED vars PROVE WeekInv'
  BY <1>2 DEF WeekInv, CreatedOnce, vars, scheduleVars, auditVars
<1> QED BY <1>1, <1>2

\* CreatedOnce: of all the calls that found no week, one creates it (schedule-weeks.service.ts
\* getOrCreate looks the week up before it inserts, and the unique key refuses the others).
THEOREM WeekCreatedOnce == Spec => []CreatedOnce
<1>1. Init => WeekInv
  BY DEF Init, WeekInv, CreatedOnce
<1>2. WeekInv => CreatedOnce
  BY DEF WeekInv
<1>3. Spec => []TypeInv
  BY InitTyped, TypeInvKept, PTL DEF Spec
<1> QED BY <1>1, <1>2, <1>3, WeekKept, PTL DEF Spec

-----------------------------------------------------------------------------
(* What the log says of the week *)

\* A log in which nobody was overtaken has at most one change of the week still to come, and
\* that change is the last one.
EntryInv ==
  overtaken = {} => \/ Unlogged = {} /\ weekEntry = week
                    \/ \E c \in Calls : Unlogged = {c} /\ week = WeekAfter(call[c].kind)

LEMMA WeekMoveFacts ==
  ASSUME TypeInv, NEW c \in Calls, WeekMoves(c)
  PROVE  /\ overtaken' = Unlogged /\ week' = WeekAfter(call'[c].kind)
         /\ call'[c].kind \in WeekKinds /\ call'[c].pc = "audit"
         /\ \A d \in Calls \ {c} : call'[d] = call[d]
<1> USE DEF TypeInv
<1>0. \A kind \in WeekKinds : AfterWrite(kind) = "audit"
  BY DEF WeekKinds, AfterWrite, Audited, OfficeKinds
<1>1. CASE Publish(c)
  <2> DEFINE r == [NoCall EXCEPT !.kind = "publish"]
  <2>1. r \in Call /\ r.kind = "publish"
    BY NoCallTyped DEF Call, Kinds, OfficeKinds
  <2>2. Committed(c, r) /\ overtaken' = Unlogged /\ week' = "PUBLISHED"
    BY <1>1 DEF Publish, WeekBecomes
  <2> HIDE DEF r
  <2>3. /\ call'[c].kind = r.kind /\ call'[c].pc = AfterWrite(r.kind)
        /\ \A d \in Calls \ {c} : call'[d] = call[d]
    BY <2>1, <2>2, CommittedTyped
  <2> QED BY <1>0, <2>1, <2>2, <2>3 DEF WeekKinds, WeekAfter
<1>2. CASE (OpenWeekWrite(c) /\ ~Fails(c)) \/ UnpublishWrite(c)
  <2>1. call[c] \in Call /\ call[c].kind \in {"open", "unpublish"}
    BY <1>2 DEF OpenWeekWrite, UnpublishWrite, At, TypeOK
  <2>2. Committed(c, call[c]) /\ overtaken' = Unlogged /\ week' = "DRAFT"
    BY <1>2 DEF OpenWeekWrite, UnpublishWrite, WeekBecomes
  <2>3. /\ call'[c].kind = call[c].kind /\ call'[c].pc = AfterWrite(call[c].kind)
        /\ \A d \in Calls \ {c} : call'[d] = call[d]
    BY <2>1, <2>2, CommittedTyped
  <2> QED BY <1>0, <2>1, <2>2, <2>3 DEF WeekKinds, WeekAfter
<1> QED BY <1>1, <1>2 DEF WeekMoves

\* Nothing else brings a call of the week to its audit entry or away from it.
LEMMA StillUnlogged ==
  ASSUME TypeInv, NEW c \in Calls, Moves(c), ~WeekMoves(c), ~Die(c), ~Audit(c)
  PROVE  call[c].pc # "audit" /\ (call'[c].kind \in WeekKinds => call'[c].pc # "audit")
<1>1. CASE PlainStart(c) \/ ClockStart(c) \/ SessionStart(c)
  BY <1>1, StartFacts DEF Started
<1>2. CASE Stamps(c) \/ RefreshRevoke(c)
  BY <1>2, StampFacts, RevokeFacts DEF Goes, RefreshRevoke, At
<1>3. CASE Writes(c)
  BY <1>3, WriteFacts DEF Goes, Writes
<1>4. CASE WritesAtOnce(c)
  <2>1. PICK record \in Call : Committed(c, record) /\ record.kind \notin WeekKinds
    BY <1>4 DEF WritesAtOnce
  <2>2. call[c].pc = "new" /\ call'[c].kind = record.kind
    BY <1>4, <2>1, CommittedTyped DEF WritesAtOnce, TypeInv
  <2> QED BY <2>1, <2>2
<1>5. CASE Ends(c)
  BY <1>5, EndFacts DEF Goes, Ends
<1>6. CASE Aftermath(c)
  <2>1. CASE FindRecipients(c)
    BY <2>1, FindFacts DEF FindRecipients
  <2>2. CASE InsertNotices(c)
    BY <2>2, InsertFacts, Plans DEF InsertNotices, Goes, WeekKinds
  <2>3. ASSUME NEW p \in People, Tell(c, p)
        PROVE  call[c].pc # "audit" /\ (call'[c].kind \in WeekKinds => call'[c].pc # "audit")
    BY <2>3, TellFacts, Plans DEF Tell, WeekKinds
  <2> QED BY <1>6, <2>1, <2>2, <2>3 DEF Aftermath
<1> QED BY <1>1, <1>2, <1>3, <1>4, <1>5, <1>6 DEF Moves

LEMMA EntryKept == TypeInv /\ EntryInv /\ [Next]_vars => EntryInv'
<1>u. /\ Unlogged = {d \in Calls : call[d].kind \in WeekKinds /\ call[d].pc = "audit"}
      /\ Unlogged' = {d \in Calls : call'[d].kind \in WeekKinds /\ call'[d].pc = "audit"}
  BY DEF Unlogged, WeekKinds
<1>1. ASSUME TypeInv, EntryInv, NEW c \in Calls, WeekMoves(c) PROVE EntryInv'
  <2> SUFFICES ASSUME overtaken' = {} PROVE Unlogged' = {c} /\ week' = WeekAfter(call[c].kind)'
    BY DEF EntryInv
  <2>1. Unlogged = {} /\ Unlogged' = {c}
    BY <1>u, <1>1, WeekMoveFacts
  <2> QED BY <1>1, <2>1, WeekMoveFacts DEF WeekAfter, WeekKinds
<1>2. ASSUME TypeInv, EntryInv, NEW c \in Calls, Audit(c) PROVE EntryInv'
  <2>1. /\ overtaken' = overtaken /\ week' = week /\ weekEntry' = WeekAfter(call[c].kind)
        /\ call[c].pc = "audit"
    BY <1>2 DEF Audit, scheduleVars
  <2>2. /\ call'[c].kind = call[c].kind /\ call'[c].pc # "audit"
        /\ \A d \in Calls \ {c} : call'[d] = call[d]
    BY <1>2, AuditFacts, Plans, OthersStay DEF Goes, Moves, Aftermath
  <2>3. CASE call[c].kind \in WeekKinds
    <3>1. c \in Unlogged /\ Unlogged' = Unlogged \ {c}
      BY <1>u, <2>1, <2>2, <2>3
    <3>2. overtaken = {} => Unlogged = {c} /\ week = WeekAfter(call[c].kind)
      BY <1>2, <3>1 DEF EntryInv
    <3> QED BY <2>1, <3>1, <3>2 DEF EntryInv
  <2>4. CASE call[c].kind \notin WeekKinds
    <3>1. weekEntry' = weekEntry /\ Unlogged' = Unlogged
      BY <1>u, <2>1, <2>2, <2>4 DEF WeekAfter, WeekKinds
    <3>2. \A d \in Calls : d \in Unlogged => call'[d].kind = call[d].kind /\ call[d].kind \in WeekKinds
      BY <1>u, <2>2
    <3> QED BY <1>2, <2>1, <3>1, <3>2 DEF EntryInv, WeekAfter, WeekKinds
  <2> QED BY <2>3, <2>4
<1>3. ASSUME TypeInv, EntryInv, Next, \A c \in Calls : ~WeekMoves(c) /\ ~Audit(c) PROVE EntryInv'
  <2>1. weekEntry' = weekEntry
    BY <1>3, FramesHold DEF Frames
  <2>2. CASE \E c \in Calls : Die(c)
    <3>1. PICK c \in Calls : Die(c)
      BY <2>2
    <3>2. week' = week /\ overtaken' = IF c \in Unlogged THEN overtaken \cup {c} ELSE overtaken
      BY <3>1 DEF Die, scheduleVars
    <3>3. Moves(c) /\ Ends(c)
      BY <3>1 DEF Die, Ends, Moves
    <3>4. call'[c].pc = "dead" /\ \A d \in Calls \ {c} : call'[d] = call[d]
      BY <1>3, <3>3, EndFacts, OthersStay DEF Goes
    <3>5. CASE c \in Unlogged
      BY <3>2, <3>5 DEF EntryInv
    <3>6. CASE c \notin Unlogged
      <4>1. Unlogged' = Unlogged /\ \A d \in Unlogged : call'[d] = call[d]
        BY <1>u, <3>4, <3>6
      <4> QED BY <1>3, <2>1, <3>2, <3>6, <4>1 DEF EntryInv, WeekAfter
    <3> QED BY <3>5, <3>6
  <2>3. CASE \A c \in Calls : ~Die(c)
    <3>1. week' = week /\ overtaken' = overtaken
      BY <1>3, <2>3, FramesHold DEF Frames
    <3>2. \A d \in Calls : /\ d \in Unlogged' <=> d \in Unlogged
                           /\ d \in Unlogged => call'[d].kind = call[d].kind
      <4>1. CASE call' = call
        BY <1>u, <4>1
      <4>2. ASSUME NEW c \in Calls, Moves(c), NEW d \in Calls
            PROVE  /\ d \in Unlogged' <=> d \in Unlogged
                   /\ d \in Unlogged => call'[d].kind = call[d].kind
        <5>1. CASE d = c
          BY <1>u, <1>3, <2>3, <4>2, <5>1, StillUnlogged
        <5>2. CASE d # c
          BY <1>u, <1>3, <4>2, <5>2, OthersStay
        <5> QED BY <5>1, <5>2
      <4> QED BY <1>3, <4>1, <4>2, CallsMove
    <3>3. Unlogged' = Unlogged
      BY <1>u, <3>2
    <3> QED BY <1>3, <2>1, <3>1, <3>2, <3>3 DEF EntryInv, WeekAfter
  <2> QED BY <2>2, <2>3
<1>4. ASSUME EntryInv, UNCHANGED vars PROVE EntryInv'
  BY <1>4 DEF EntryInv, Unlogged, WeekAfter, vars, scheduleVars, auditVars
<1> QED BY <1>1, <1>2, <1>3, <1>4

\* LogTellsTheWeek: although audit.service.ts writes the entry outside of the transaction of the
\* change, the newest entry of the week is wrong only as long as a call that changed the week
\* was overtaken by another change, or died, before its entry.
THEOREM LogKeepsUp == Spec => []LogTellsTheWeek
<1>1. Init => EntryInv
  BY NoCallFields DEF Init, EntryInv, Unlogged
<1>2. EntryInv => LogTellsTheWeek
  BY DEF EntryInv, LogTellsTheWeek
<1>3. Spec => []TypeInv
  BY InitTyped, TypeInvKept, PTL DEF Spec
<1> QED BY <1>1, <1>2, <1>3, EntryKept, PTL DEF Spec
=============================================================================
