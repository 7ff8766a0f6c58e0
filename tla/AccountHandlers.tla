--------------------------- MODULE AccountHandlers ---------------------------
(***************************************************************************)
(* Accounts and sessions: UsersService, and the refresh tokens that       *)
(* AuthService issues, exchanges and revokes.  An access token is not a   *)
(* row; what matters of it is that every call it carries looks the user up.*)
(***************************************************************************)
EXTENDS OfficeTables

unlessAccounts == <<scope, staffVars, scheduleVars, outboxVars, logVars, now>>

-----------------------------------------------------------------------------
(* Users *)

\* create: the mail address is looked up, the password hashed, then the row inserted;
\* the address is a unique key.
CreateUserStart(c, p) ==
  /\ Arrives(c, "create")
  /\ user[p].row = "NONE"
  /\ \E channel \in Channels :
       Reads(c, [NoCall EXCEPT !.kind = "create", !.pc = "write", !.who = p, !.set = channel])

CreateUserWrite(c) ==
  /\ At(c, "create", "write")
  /\ \/ /\ user[call[c].who].row = "NONE"
        /\ user' = [user EXCEPT ![call[c].who] = [row |-> "ACTIVE", channel |-> call[c].set]]
        /\ Committed(c, call[c])
        /\ UNCHANGED <<unlessAccounts, token, deactivated>>
     \/ user[call[c].who].row # "NONE" /\ Fails(c)

\* update: of its fields only notificationChannel is read by another service here.
UpdateUserStart(c, p) ==
  /\ Arrives(c, "update")
  /\ user[p].row # "NONE"
  /\ \E channel \in Channels :
       Reads(c, [NoCall EXCEPT !.kind = "update", !.pc = "write", !.who = p, !.set = channel])

UpdateUserWrite(c) ==
  /\ At(c, "update", "write")
  /\ user' = [user EXCEPT ![call[c].who].channel = call[c].set]
  /\ Committed(c, call[c])
  /\ UNCHANGED <<unlessAccounts, token, deactivated>>

\* updateOwnProfile: one write and no audit entry.
UpdateOwnProfile(c, p) ==
  /\ Arrives(c, "profile") /\ Authenticated(p)
  /\ \E channel \in Channels : user' = [user EXCEPT ![p].channel = channel]
  /\ Committed(c, [NoCall EXCEPT !.kind = "profile"])
  /\ UNCHANGED <<unlessAccounts, token, deactivated>>

\* setActive: the row and, when the account is closed, all its unrevoked tokens in one
\* transaction; the audit entry follows outside of it.
SetActiveStart(c, p) ==
  /\ Arrives(c, "setActive")
  /\ user[p].row # "NONE"
  /\ \E isActive \in {"ACTIVE", "INACTIVE"} :
       Reads(c, [NoCall EXCEPT !.kind = "setActive", !.pc = "write", !.who = p, !.set = isActive])

Revoked(t) == [t EXCEPT !.status = "REVOKED"]
Unrevoked(t) == t.status \in {"LIVE", "EXPIRED"}

RevokeAllOf(p) ==
  [d \in Calls |-> IF token[d].owner = p /\ Unrevoked(token[d]) THEN Revoked(token[d]) ELSE token[d]]

SetActiveWrite(c) ==
  LET p == call[c].who
      close == call[c].set = "INACTIVE"
  IN  /\ At(c, "setActive", "write")
      /\ user' = [user EXCEPT ![p].row = call[c].set]
      /\ token' = IF close THEN RevokeAllOf(p) ELSE token
      /\ deactivated' = IF close THEN [deactivated EXCEPT ![p] = @ + 1] ELSE deactivated
      /\ Committed(c, call[c])
      /\ UNCHANGED unlessAccounts

-----------------------------------------------------------------------------
(* Sessions *)

\* validateCredentials: the account must be active; the password is compared after the
\* read, and login then issues tokens for what was read.
LoginStart(c, p) ==
  /\ Arrives(c, "login")
  /\ user[p].row = "ACTIVE"
  /\ Reads(c, [NoCall EXCEPT !.kind = "login", !.pc = "issue", !.who = p,
                             !.asOf = deactivated[p]])

RefreshOfAnyAccount(c, t) ==
  /\ Arrives(c, "refresh")
  /\ token[t].status = "LIVE"
  /\ Reads(c, [NoCall EXCEPT !.kind = "refresh", !.pc = "write", !.who = token[t].owner,
                             !.token = t, !.asOf = deactivated[token[t].owner]])

\* refresh: the stored token and its user are read together, the token is revoked by its
\* id, and new ones are issued.
RefreshStart(c, t) ==
  /\ Arrives(c, "refresh")
  /\ token[t].status = "LIVE"
  /\ user[token[t].owner].row = "ACTIVE"
  /\ Reads(c, [NoCall EXCEPT !.kind = "refresh", !.pc = "write", !.who = token[t].owner,
                             !.token = t, !.asOf = deactivated[token[t].owner]])

RefreshKeepsOld(c) ==
  /\ At(c, "refresh", "write")
  /\ Resume(c, [call[c] EXCEPT !.pc = "issue"])
  /\ UNCHANGED <<unlessAccounts, accountVars, wrote>>

RefreshRevoke(c) ==
  /\ At(c, "refresh", "write")
  /\ token' = [token EXCEPT ![call[c].token] = Revoked(@)]
  /\ Resume(c, [call[c] EXCEPT !.pc = "issue"])
  /\ UNCHANGED <<unlessAccounts, user, deactivated, wrote>>

IssueTokens(c) ==
  /\ call[c].pc = "issue"
  /\ token' = [token EXCEPT ![c] =
                [status |-> "LIVE", owner |-> call[c].who, spent |-> call[c].token,
                 asOf |-> call[c].asOf, born |-> deactivated[call[c].who]]]
  /\ Committed(c, call[c])
  /\ UNCHANGED <<unlessAccounts, user, deactivated>>

\* logout: updateMany, so a token that is revoked already stays as it is.
Logout(c, t) ==
  /\ Arrives(c, "logout")
  /\ token[t].status # "NONE"
  /\ token' = [token EXCEPT ![t] = IF Unrevoked(@) THEN Revoked(@) ELSE @]
  /\ Committed(c, [NoCall EXCEPT !.kind = "logout"])
  /\ UNCHANGED <<unlessAccounts, user, deactivated>>

\* expiresAt passes.
TokenExpires(t) ==
  /\ token[t].status = "LIVE"
  /\ token' = [token EXCEPT ![t].status = "EXPIRED"]
  /\ UNCHANGED <<unlessAccounts, user, deactivated, wrote, call>>
=============================================================================
