------------------------- MODULE AssignmentHandlers -------------------------
(***************************************************************************)
(* The handlers of a location's schedule: ShiftAssignmentsService (assign,*)
(* unassign), ShiftsService (create, update, remove), the publish and     *)
(* unpublish calls of ScheduleWeeksService, and the helper                *)
(* cancelPendingSwapsForAssignments that two of them end with.            *)
(***************************************************************************)
EXTENDS Tables

-----------------------------------------------------------------------------
(* Writing assignments *)

\* p is given shift s after the engine judged s at the times w.  The row of
\* (s, p) is updated if there is one and created if not.
Judged(s, p, w) == IF w = window[s] THEN edited \ {<<s, p>>} ELSE edited \cup {<<s, p>>}

Seat(s, p, w) ==
  /\ assignment' = [assignment EXCEPT ![s][p] = "ASSIGNED"]
  /\ edited' = Judged(s, p, w)

Unseat(s, p) ==
  /\ assignment' = [assignment EXCEPT ![s][p] = "CANCELLED"]
  /\ edited' = edited \ {<<s, p>>}

HasRoomAndOne(s, needed) == Cardinality(HoldersOf(s)) =< needed

HasRoom(s, needed) == Cardinality(HoldersOf(s)) < needed

-----------------------------------------------------------------------------
(* assign *)

\* The shift and its week are read, and the cutoff checked, before the
\* transaction opens: the handler keeps the times and the headcount it read.
AssignStart(h, s, p) ==
  /\ "assign" \in Endpoints
  /\ Idle(h)
  /\ Live(s) /\ Editable(window[s].start)
  /\ Continue(h, [NoJob EXCEPT !.pc = "assign_lock", !.shift = s, !.to = p,
                               !.win = window[s], !.need = need[s]])
  /\ OnlyJob

AssignLock(h) == At(h, "assign_lock") /\ TakeLockAndGoTo(h, "assign_count")

CountAccepts(h) ==
  ~Holds(job[h].to, job[h].shift) /\ HasRoom(job[h].shift, job[h].need)

AssignCount(h) ==
  /\ At(h, "assign_count")
  /\ \/ CountAccepts(h) /\ Advance(h, "assign_check") /\ OnlyJob
     \/ ~CountAccepts(h) /\ Refuse(h)

AssignVerdict(h) == EngineAccepts(job[h].to, job[h].shift, job[h].win)

AssignCheck(h) ==
  /\ At(h, "assign_check")
  /\ \/ AssignVerdict(h) /\ Advance(h, "assign_write") /\ OnlyJob
     \/ ~AssignVerdict(h) /\ Refuse(h)

\* The row is written and the transaction commits, which frees the lock.  The
\* foreign key refuses a row for a shift deleted meanwhile.
AssignWrite(h) ==
  /\ At(h, "assign_write")
  /\ \/ /\ Live(job[h].shift)
        /\ Seat(job[h].shift, job[h].to, job[h].win)
        /\ Finish(h)
        /\ ReleaseLocks(h)
        /\ UNCHANGED <<shiftVars, swapVars, worldVars, queue>>
     \/ ~Live(job[h].shift) /\ Refuse(h)

-----------------------------------------------------------------------------
(* unassign: no transaction and no lock *)

UnassignStart(h, s, p) ==
  /\ "unassign" \in Endpoints
  /\ Idle(h)
  /\ Live(s) /\ Editable(window[s].start) /\ Holds(p, s)
  /\ Continue(h, [NoJob EXCEPT !.pc = "unassign_write", !.shift = s, !.to = p])
  /\ OnlyJob

UnassignWrite(h) ==
  /\ At(h, "unassign_write")
  /\ \/ /\ Live(job[h].shift)
        /\ Unseat(job[h].shift, job[h].to)
        /\ Continue(h, [NoJob EXCEPT !.pc = "cancel_find", !.shift = job[h].shift,
                                     !.rows = {job[h].to}])
        /\ UNCHANGED <<shiftVars, swapVars, worldVars, userLock, queue>>
     \/ ~Live(job[h].shift) /\ Refuse(h)

-----------------------------------------------------------------------------
(* cancelPendingSwapsForAssignments, for rows of one shift *)

RefersToInitiatorOnly(r, s, rows) == request[r].shift = s /\ request[r].initiator \in rows

RefersTo(r, s, rows) ==
  \/ request[r].shift = s /\ request[r].initiator \in rows
  \/ request[r].back = s /\ request[r].counterparty \in rows

OpenFor(s, rows) == {r \in Requests : request[r].status = "PENDING" /\ RefersTo(r, s, rows)}

PendingFor(s, rows) == {r \in Requests : Active(r) /\ RefersTo(r, s, rows)}

CancelFind(h) ==
  /\ At(h, "cancel_find")
  /\ LET hits == PendingFor(job[h].shift, job[h].rows)
     IN  Continue(h, IF hits = {} THEN NoJob
                     ELSE [job[h] EXCEPT !.pc = "cancel_all", !.hits = hits])
  /\ OnlyJob

\* The second statement selects by id alone: it cancels what the first one
\* found, whatever became of it in between.
CancelAll(h) ==
  /\ At(h, "cancel_all")
  /\ request' = [r \in Requests |-> IF r \in job[h].hits
                                    THEN [request[r] EXCEPT !.status = "CANCELLED"]
                                    ELSE request[r]]
  /\ Finish(h)
  /\ UNCHANGED <<shiftVars, rosterVars, moved, worldVars, userLock, queue>>

-----------------------------------------------------------------------------
(* Shifts: create, update, remove *)

Unclaimed(s) == life[s] = "FRESH" /\ \A g \in Procs : job[g].shift # s

CreateStart(h, s, w, n) ==
  /\ "create" \in Endpoints
  /\ Idle(h)
  /\ Unclaimed(s) /\ Editable(w.start)
  /\ Continue(h, [NoJob EXCEPT !.pc = "create_write", !.shift = s, !.win = w, !.need = n])
  /\ OnlyJob

CreateWrite(h) ==
  /\ At(h, "create_write")
  /\ life' = [life EXCEPT ![job[h].shift] = "LIVE"]
  /\ window' = [window EXCEPT ![job[h].shift] = job[h].win]
  /\ need' = [need EXCEPT ![job[h].shift] = job[h].need]
  /\ Finish(h)
  /\ UNCHANGED <<rosterVars, swapVars, worldVars, userLock, queue>>

BeginEdit(h, s, w, n) ==
  /\ Continue(h, [NoJob EXCEPT !.pc = "edit_write", !.shift = s, !.win = w, !.need = n])
  /\ OnlyJob

EditByNewStart(h, s, w, n) ==
  /\ "edit" \in Endpoints
  /\ Idle(h)
  /\ Live(s) /\ Editable(w.start)
  /\ BeginEdit(h, s, w, n)

\* The cutoff counts from the earlier of the old and the new start.
EditStart(h, s, w, n) ==
  /\ "edit" \in Endpoints
  /\ Idle(h)
  /\ Live(s) /\ Editable(window[s].start) /\ Editable(w.start)
  /\ BeginEdit(h, s, w, n)

MovedHolders(s, w) == IF w = window[s] THEN {} ELSE {<<s, p>> : p \in HoldersOf(s)}

EditWrite(h) ==
  LET s == job[h].shift
      w == job[h].win
  IN  /\ At(h, "edit_write")
      /\ \/ /\ Live(s)
            /\ window' = [window EXCEPT ![s] = w]
            /\ need' = [need EXCEPT ![s] = job[h].need]
            /\ edited' = edited \cup MovedHolders(s, w)
            /\ Continue(h, [NoJob EXCEPT !.pc = "edit_rows", !.shift = s])
            /\ UNCHANGED <<life, assignment, swapVars, worldVars, userLock, queue>>
         \/ ~Live(s) /\ Refuse(h)

EditRows(h) ==
  LET holders == HoldersOf(job[h].shift)
  IN  /\ At(h, "edit_rows")
      /\ Continue(h, IF holders = {} THEN NoJob
                     ELSE [job[h] EXCEPT !.pc = "cancel_find", !.rows = holders])
      /\ OnlyJob

RemoveStart(h, s) ==
  /\ "remove" \in Endpoints
  /\ Idle(h)
  /\ Live(s) /\ Editable(window[s].start)
  /\ Continue(h, [NoJob EXCEPT !.pc = "remove_count", !.shift = s, !.rows = RowsOf(s)])
  /\ OnlyJob

HasHistory(s, rows) == \E r \in Requests : RefersTo(r, s, rows)

RemoveCount(h) ==
  /\ At(h, "remove_count")
  /\ \/ ~HasHistory(job[h].shift, job[h].rows) /\ Advance(h, "remove_delete") /\ OnlyJob
     \/ HasHistory(job[h].shift, job[h].rows) /\ Refuse(h)

\* Deleting a shift deletes its assignments (CASCADE), which is refused while a
\* request has one of them as initiatorAssignment (RESTRICT) and empties
\* proposedReturnAssignment of the requests that name one (SET NULL).
Unrestricted(s) == FALSE

Restricted(s) == \E r \in Requests : request[r].shift = s

RemoveDelete(h) ==
  LET s == job[h].shift
      removable == Live(s) /\ ~Restricted(s)
  IN  /\ At(h, "remove_delete")
      /\ \/ /\ removable
            /\ life' = [life EXCEPT ![s] = "DELETED"]
            /\ assignment' = [assignment EXCEPT ![s] = [p \in Staff |-> "NONE"]]
            /\ edited' = edited \ ({s} \X Staff)
            /\ request' = [r \in Requests |-> IF request[r].back = s
                                              THEN [request[r] EXCEPT !.back = None]
                                              ELSE request[r]]
            /\ Finish(h)
            /\ UNCHANGED <<window, need, moved, worldVars, userLock, queue>>
         \/ ~removable /\ Refuse(h)

-----------------------------------------------------------------------------
(* Publishing the week *)

PublishStart(h) ==
  /\ "publish" \in Endpoints
  /\ Idle(h)
  /\ Continue(h, [NoJob EXCEPT !.pc = "publish_write"])
  /\ OnlyJob

SetPublished(h, value) ==
  /\ published' = value
  /\ Finish(h)
  /\ UNCHANGED <<shiftVars, rosterVars, swapVars, qualified, now, userLock, queue>>

PublishWrite(h) == At(h, "publish_write") /\ SetPublished(h, TRUE)

\* The cutoff counts from the earliest shift of the week.
UnpublishStart(h) ==
  /\ "publish" \in Endpoints
  /\ Idle(h)
  /\ \A s \in Shifts : Live(s) => Editable(window[s].start)
  /\ Continue(h, [NoJob EXCEPT !.pc = "unpublish_write"])
  /\ OnlyJob

UnpublishWrite(h) == At(h, "unpublish_write") /\ SetPublished(h, FALSE)
=============================================================================
