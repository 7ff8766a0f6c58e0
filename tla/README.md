# ShiftSync backend: specifications, model checking and proofs

ShiftSync schedules the staff of a restaurant group. Managers draft shifts, assign
staff and publish weeks; staff trade shifts among themselves, and a manager approves
the trade. This directory holds TLA+ modules translated from the services in
`src/src/`, the TLC configurations that check them on small instances, and proofs
that TLAPS checks for every instance.

## The system

One Node process runs the NestJS services. Every HTTP call is an `async` handler, so
handlers interleave at each `await`. PostgreSQL (through Prisma) holds all state;
only `assign`, `transferAssignment` and `setActive` open a transaction, and the first
two take one `SELECT ... FOR UPDATE` lock on the `User` row of the person they assign
to. BullMQ (Redis) runs the delayed jobs that expire drops, and the mails.

| Component | State | Operations | Talks to | Hard part | Correct when |
|---|---|---|---|---|---|
| shift assignments (`shift-assignments.service.ts`) | `ShiftAssignment` rows | assign, unassign, preview | engine, cancellation helper | check-then-write in two concurrent calls | nobody gets two clashing shifts; headcount kept |
| shifts (`shifts.service.ts`, `edit-cutoff.util.ts`, `cancel-pending-swaps.util.ts`) | `Shift` rows | create, update, remove | requests, assignments | edits under pending requests, cascading deletes | edits cancel requests; no request loses its shift; nothing moves past the cutoff |
| schedule weeks (`schedule-weeks.service.ts`) | `ScheduleWeek` rows | getOrCreate, publish, unpublish | shifts | the flag other handlers have read changes under them | the cutoff binds published weeks |
| swaps and drops (`swaps.service.ts`) | `SwapRequest` rows | requestSwap, requestDrop, accept, decline, claim, cancel, managerApprove, managerReject | assignments, engine, queue | two transactions in one approval; updates by id after awaits | approved means moved; resolved is final; caps |
| drop expiry (`swap-expiry.processor.ts`) | BullMQ queue | add, remove, process | requests | late, repeated or lost jobs | an unclaimed drop is closed |
| constraint engine (`constraint-engine/`) | none (reads) | evaluateAssignment, suggestAlternatives | assignments, availability, certifications | windows and calendar boundaries | its verdict is still true at the commit |
| availability (`availability.service.ts`) | rules and exceptions | add, change, remove | read by the engine | changed after the check | input of the engine |
| staff of a location (`certifications.service.ts`, managers in `locations.service.ts`) | `StaffSkill`, `StaffLocation`, `ManagerLocation` rows | grant, revoke, certify, decertify, assign and unassign manager | engine, recipients of notifications | the set changes while somebody is being told something | the right people are told |
| time clock (`timeclock.service.ts`) | clock-in and clock-out times of an assignment | clockIn, clockOut | assignments | two calls pass one check; the time is taken after the read; a row is used again after it was cancelled | nobody is out without in, nor before it unless two clock-ins overlapped |
| users and sessions (`users.service.ts`, `auth.service.ts`, `jwt.strategy.ts`) | `User`, `RefreshToken` rows | create, update, setActive, profile; login, refresh, logout | all controllers | a token issued on an old read; a rotation that stops halfway | a closed account and a spent token stay unusable |
| notifications (`notifications.service.ts`) | `Notification` rows | create, createMany, mark read | last in each handler | recipients are read after the change | everyone concerned is told, nobody else |
| mail (`mail/`) | BullMQ queue | enqueue, process | notifications | the queue retries nothing, the worker stalls | no mail without notification; the queue drains |
| audit log (`audit.service.ts`) | `AuditLog` rows | record | after most writes | outside the transaction of the change | says what happened, unless calls overlap or die before their entry |
| realtime (`realtime.gateway.ts`) | sockets and rooms | connect, emit | handlers, notifications | rooms are joined once | - |
| roles and access (`access/`, guards) | none (reads) | assert... | all controllers | - | who may call what |
| weekly overtime report (`compliance.service.ts`) | none (reads) | getWeeklyOvertimeReport | assignments | a local week fetched by UTC times | agrees with the engine's warnings |
| fairness reports | none (reads) | hours, premium shifts, desired hours | assignments, overtime report | - | arithmetic of the report |

`PROJECT.json` lists the hazards of this code at their lines and the properties aimed
at each of them.

## The modules

`Tables` < `AssignmentHandlers` < `SwapHandlers` < `Scheduling` < `MCScheduling`
(each EXTENDS the one before it); `Scheduling` instantiates `Roster`. The proofs are a
chain of their own: `Scheduling` < `SchedulingProofs` < `RequestProofs` < `InTurnProofs` <
`SeatProofs` < `CancellationProofs`, with `RosterProofs` on `SchedulingProofs`.
`ConstraintEngine`, `MCConstraintEngine` and `ConstraintEngineProofs` stand by
themselves. `OfficeTables` < `AccountHandlers` < `OfficeHandlers` <
`BackOffice` < `MCBackOffice` is the second chain, with `BackOfficeProofs` on
`BackOffice`.

- **Tables**: the database as VARIABLES, the engine's time rules, and the state of a
  handler. `job[h]` is what handler `h` keeps in local variables: where it is (`pc`)
  and what it has read. `edited` and `moved` are history variables.
- **AssignmentHandlers**: assign, unassign, create, update and remove of a shift,
  publish, unpublish, `cancelPendingSwapsForAssignments`.
- **SwapHandlers**: every operation of `SwapsService` that writes, and the worker.
- **Scheduling**: the calls the clients make, the clock, qualifications, faults,
  `Next`, fairness, and all properties.
- **Roster**: the abstract specification. It knows seats, times and which seats are
  `unvetted`, meaning that a manager moved the shift after its holder was judged.
- **ConstraintEngine**: the engine over one person's calendar with all its rules:
  which shifts it fetches (nine days back, 48 hours ahead), local days and weeks,
  hours, streaks, availability rules and exceptions; the calls are assign, unassign
  and changes of availability, one at a time. Beside it, the weekly overtime report.
- **ConstraintEngineProofs**: laws of sums and maxima over finite sets, and from them a
  theorem for each property of the engine's run.
- **MCConstraintEngine**: shifts, rules and exceptions for TLC.
- **MCScheduling**: shift times and rosters for TLC.
- **SchedulingProofs**: the invariant that the later ones build on; type correctness and
  the roster's safety.
- **RequestProofs**: what holds of requests under any interleaving and any fault.
- **RosterProofs**: `Scheduling` implements `Roster`.
- **InTurnProofs**, **SeatProofs**, **CancellationProofs**: what holds of requests, of the
  seats and of the automatic cancellation when calls do not overlap.
- **OfficeTables**: the tables around the schedule, the life of a call, and what follows
  a write in the order of the handlers (`AfterWrite`, `AfterAudit`, `AfterTell`).
  `reclocked` and `overtaken` are history variables, as are those about accounts and recipients.
- **AccountHandlers**: `UsersService` and `AuthService`.
- **OfficeHandlers**: managers and certifications of the location, opening and
  publishing the week, the time clock, and recipients, notifications and mails. Of the
  calls of `Scheduling` it has what comes after their write: audit entry,
  recipients, notifications.
- **BackOffice**: calls, deaths, the clock, the mail worker, fairness and properties.
- **BackOfficeProofs**: the inductive invariants and a theorem for each of its safety
  properties.
- **MCBackOffice**: the mixes of operations that TLC explores together.

The two chains share no state on purpose. What one writes the other reads in only two
places, and there each takes every possible value: `Scheduling` lets `qualified` change
at any time (`Requalify`), and `BackOffice` lets a request be answered at any time
(`AcceptOrClaim`, `Resolve`).

### From handler to actions

A handler is a chain of actions. Reads before the first write can only refuse the
call, so they are merged with its start (`AssignStart`, `CancelStart`, ...): the call
starts when the last of those reads returns, and a refused call leaves no step. Every
later write is an action of its own, and so is every read that a later write depends
on, so the gaps between "checked" and "written" are in the model. A transaction
becomes visible in one step, its commit; taking its lock is a step before.

The clock is looked at in the same step. Where it is only compared with a cutoff or an
expiry after the reads, this loses nothing: one that has not passed at the check had not
passed at the reads either. Two kinds of calls do more. The time clock writes the time it
took after its read, so taking it is a step of its own (`ClockInStamp`, `ClockOutStamp`). In
`claimDrop` and `unassign` a read follows the check, and `requestDrop` picks the expiry by
the time; a call during which the clock passes the limit between those two moments is left
out. No property depends on it: those about cutoffs and expiries are about calls in turn,
where only time and qualifications move under a call.

| Code | Actions |
|---|---|
| `assign` | AssignStart, AssignLock, AssignCount, AssignCheck, AssignWrite |
| `unassign` | UnassignStart, UnassignWrite, CancelFind, CancelAll |
| `ShiftsService.update` | EditStart, EditWrite, EditRows, CancelFind, CancelAll |
| `ShiftsService.remove` | RemoveStart, RemoveCount, RemoveDelete |
| `ShiftsService.create`, `publish`, `unpublish` | CreateStart/Write, PublishStart/Write, UnpublishStart/Write |
| `requestSwap`, `requestDrop` | SwapStart, SwapCreate; DropStart, DropCreate, DropEnqueue |
| `acceptSwap`, `declineSwap`, `claimDrop`, `managerReject` | one Start and one Write each |
| `cancel` | CancelStart, CancelWrite, CancelJob |
| `managerApprove` | ApproveStart, then TransferLock, TransferCheck, TransferWrite for each shift, then ApproveWrite |
| `expireDropIfStillPending` | ExpireStart, ExpireWrite; StalledJob when the worker dies |

In the back office a call has a number, so that log entries, tokens, notifications and
mails can be told apart by the call they come from, and moves through the positions
`stamp`, `write`, `issue`, `audit`, `recipients`, `insert`, `tell`:

| Code | Actions |
|---|---|
| `UsersService.create`, `update`, `setActive`, `updateOwnProfile` | CreateUserStart/Write, UpdateUserStart/Write, SetActiveStart/Write, UpdateOwnProfile |
| `login` with `validateCredentials` | LoginStart, IssueTokens |
| `refresh`; `logout` | RefreshStart, RefreshRevoke, IssueTokens; Logout |
| `assignManager`, `unassignManager`, `certifyLocation`, `grantSkill` | one action each |
| `decertifyLocation`, `revokeSkill` | DecertifyStart/Write, RevokeSkillStart/Write |
| `getOrCreate`, `publish`, `unpublish` | OpenWeekStart/Write, Publish, UnpublishStart/Write |
| `clockIn`, `clockOut` | ClockInStart/Stamp/Write, ClockOutStart/Stamp/Write |
| the calls of `Scheduling`, from their write on | Assign, UnassignStart/Write, AcceptOrClaim, Resolve |
| `audit.record` | Audit; part of Assign, which passes its transaction |
| `notifyManagersAndInitiator`, the reads of `publish`, `cancelPendingSwapsForAssignments` | FindRecipients |
| `createMany`, `create`, `maybeSendEmail` | InsertNotices, then Tell once per user |
| the mail queue and `EmailProcessor` | TakeMail, CompleteMail, StallMail |

A call whose checks read nothing that decides its write is one action. `Fails` is a
statement the database refuses (a unique key, a row that is gone), `Die` a call that
ends at any await.

The three reads of `managerApprove`'s transaction, of `assign`'s count and of the
engine happen at one point each (`AssignCount`, `AssignCheck`, `TransferCheck`); other
handlers may run before and after each of them.

`Refuse` ends a handler and releases its lock: a thrown exception, a rollback. With
`Faults`, `Fault(h)` does the same at any await: the process, the database or the
transaction timeout gave up, and what was already committed stays.

Foreign keys matter in two places and are modelled: a request keeps the row of its
initiator's assignment alive (RESTRICT), and deleting the return shift of an exchange
silently turns it into a gift (SET NULL), as the migration says.

### What is abstracted

- Who may call what: any client may make any call, a superset of the authorised ones.
- One location and one week. Staff, shift and request ids are model values; a new id
  is one that nobody uses.
- Skill, certification and availability are one set, `qualified`, that may change at
  any time (`Requalify`).
- In `Scheduling` the engine's rules are overlap and minimum rest over the window it
  fetches, the two that concurrent calls can break. Its other rules are in
  `ConstraintEngine`. Warnings never block.
- `ConstraintEngine` counts the staff member's local time in ticks; daylight saving
  and a change of home time zone are left out; the report, which fetches by UTC, sees that
  time shifted by `UtcOffset`, eight hours behind in the runs. A tick plays the part of the minute, the
  grain of availability. The documented overrides are chosen at the start, because no
  call of the program writes one (only the seed does).
- Notifications, mail and audit are written last and read by no handler of `Scheduling`;
  they are in `BackOffice`.
- In `BackOffice`: passwords, access tokens (a signature, no row), texts, locations and
  skills other than one. Of a user's fields there are activity and channel, which other
  calls read. Refresh tokens expire at any time.

## What the runs check

A unit of time is about five hours, so two units are `minRestHours = 10`. Two shift
times, Dawn and Dusk, are enough for each relation of two shifts: the same times
clash, one of each leaves exactly the required rest.

| Run | Instance | Shows |
|---|---|---|
| `roster_races` | 2 handlers, 2 staff, 2 shifts, 1 request; assign, edit, swap, accept, approve | `NoUncheckedClash`, `ImplementsRoster`: the lock on the staff row makes each verdict hold at its commit |
| `request_races` | 2 handlers and the worker, faults and stalled jobs, all answers, qualifications that come and go | `ApprovedMeansMoved`, `NoDanglingRequest` |
| `requests_in_turn` | 1 handler, 3 shifts, 3 requests, cap 2, the clock | `CapRespected`, `OneActivePerAssignment`, `ExpiredWasUnclaimed`, `ResolvedIsFinal` |
| `roster_in_turn` | 1 handler, all calls on shifts and weeks, headcounts 1 and 2 | `HeadcountRespected`, `LiveRequestIsCurrent`, `EditCancelsRequests`, `FrozenAfterCutoff` |
| `liveness` | 2 handlers and the worker, fairness, no faults | `HandlersFinish`, `DropsAreResolved` |
| `engine_rules` | 9 shifts over 7 days and a turn of the week, 2 rules and 2 exceptions that come and go, 0-2 overrides; a tick is 2 hours | `DailyLimitKept`, `GivenOnlyWhenIn`, `StreakNeedsOverride`, `WarningsAreReported` |
| `overtime_unseen` | one shift on each day of a week | violates `OvertimeIsAnnounced` |
| `gap_filled` | the same | violates `NoUndocumentedStreak` |
| `back_office` | 3 people, one without account; ten mixes of one to four calls; deaths, one repeat of a stalled mail | `OnlyLateTokens`, `RotationSpendsToken`, `StampsInOrder`, `LogTellsTheWeek`, `RightPeopleTold`, `MailHasNotice`, `CreatedOnce`, `EverythingSettles` |
| `late_answer` | 2 handlers | violates `ResolvedIsFinal` |
| `half_exchange` | 1 handler | violates `PendingUntouched` |
| `edit_double_books` | 1 handler | violates `NoClash` |

Two handlers are enough for a race between a read and a write: the window of one
handler is broken by writes of others, and those can follow each other in the second
handler slot. In the *in turn* runs `Worker` is the same slot as the only handler, so
calls and jobs do not overlap. Their properties are those the code keeps only then:
`HeadcountRespected`, for instance, can fail when two managers fill one seat with two
people, because the lock is on the person and not on the shift. The hazards list says
so at each such line. `HeadcountRespected` is about steps and not about states: `update`
may shrink the headcount of a shift below the people who are on it, and neither `assign`
nor an approval then adds another.

Bounds: the clock stops at `MaxNow`, each id is used once, each call needs a free
handler. At those bounds the system has nothing left to do, hence
`CHECK_DEADLOCK FALSE`. Symmetry is used for handlers and requests in safety runs, and
for staff only when nobody is assigned at the start; never with liveness.

A behaviour of `back_office` draws one mix in its first state: operations that share
rows, and how many calls there are. Operations of different mixes touch different
variables, or meet only in the audit and notification steps that all mixes have. Three
calls are enough for a token story (sign in, then two exchanges, or an exchange against
a closing and an opening of the account), for a publication during which somebody is
certified and somebody else is not any more, and for two managers opening the week
before it is published; four make two clock-ins and two clock-outs. `ann` gets mails and
`bob` does not, `bob` manages, and his seat is one that was worked, cancelled and may be
given again. `MaxStalls = 1` is BullMQ's default. A unit of its clock is
the length of the early window and the clock runs from 0 to 2: one moment in the early
window, one in the shift, and one too late. That is room for the late clock-in that
`reclocked` excuses: two clock-ins read, one takes 0, a clock-out takes 0, the clock moves,
and the other takes 1 and writes it over the 0.

Fairness (`FairSpec`): Node runs every continuation whose await is over (weak fairness
of a handler's steps); PostgreSQL queues the transactions that wait for a row, so one
that waits for a lock that keeps being freed gets it (strong fairness of the two lock
steps); BullMQ delivers a due job when its worker is free (strong fairness, as another
job may take the worker); time passes. Faults are off there: nothing looks for drops
whose job was never queued, so a crash between `DropCreate` and `DropEnqueue` leaves
one open for ever, and `DropsAreResolved` does not hold with faults. In `BackOffice`
calls go on and the mail worker takes jobs and completes them (weak fairness of each
call and each job); faults are on: a dead call is over, and a stalled job is handed out
again or given up.

## Disagreements found

- **late_answer.** Every answer reads the status, awaits, then updates by id alone.
  An accept that overlaps a cancel writes PENDING_MANAGER over CANCELLED, which
  `DECISIONS.md` calls terminal.
- **half_exchange.** An exchange is approved in two transactions. If the engine
  refuses the second, the first stays and the request stays pending, half done; the
  schema calls it a true 1-for-1 exchange.
- **edit_double_books.** `DECISIONS.md` says an edit re-runs the engine and is blocked
  on a violation. `update` never calls the engine.
- **overtime_unseen.** The overtime report is said never to disagree with what the
  engine warned of, and both to count the whole Sun-Sat week, but the engine fetches
  only shifts up to 48 hours after the candidate: assign the end of a week first and
  its beginning last, and the report shows overtime that no response announced. The
  other direction holds (`WarningsAreReported`).
- **gap_filled.** The seventh consecutive day is to be blocked without an override, but
  a streak is counted backwards only: the day between two runs of days is accepted.

Seen while modelling, without a run of their own:

- `availability-rules.ts:18-19` says that a rule until 23:59 reaches midnight, but a shift
  that ends at midnight gets an empty segment on the next day, which needs a rule of its
  own (`time-window.util.ts:54`; `LocalDays` has it).
- `audit.service.ts:17-21` asks that `record` share the transaction of the change, so that
  the log "can never drift from what actually happened". Only `assign` and
  `transferAssignment` pass theirs. A publish and an unpublish that overlap change the week
  in one order and log it in the other: the week is published, and its newest entry says
  that it is a draft. (Without its exception for `overtaken` calls TLC refutes
  `LogTellsTheWeek` by an opening and a publish that overlap so.) A call that dies between
  the two leaves no entry at all. `LogTellsTheWeek` says how far the drift goes, and that it
  ends with the next change that overlaps no other.
- `mail-queue.service.ts:18` gives each mail three attempts. `MailService` swallows the
  error, so the job never fails and none is made again, as the README's "best-effort" says.
- An assignment that is cancelled and given again to the same person keeps its clock
  times: who has clocked in once cannot clock in again.

## What is proved

`SchedulingProofs`, for all values of the constants that satisfy the assumptions of
`Tables`, any number of handlers, with and without faults:

- `TypeCorrect`: `Spec => []TypeOK`.
- `RosterIsSafe`: `Spec => []NoUncheckedClash`.

`NoUncheckedClash` is not inductive. A handler between its verdict and its commit
must know that the verdict still holds, so `IInv` adds: what a handler holds in `job`
is well formed at each `pc` (`JobsOK`, `TargetsOK`), requests name real rows
(`RequestsOK`), a handler at a `LockedSteps` position holds the lock of the person it
assigns to (`LocksHeld`), and at the write steps every clash between the judged window
and a shift of that person is with a shift moved since (`VerdictsHold`). The argument:
only a lock holder gives somebody a seat, so between verdict and commit the person's
set of shifts can only shrink, and shifts can only move, which adds to `edited`. The
proof has a lemma per action; actions that touch neither seats nor times share
`QuietStep`. The two assumptions it rests on beyond types are that the engine fetches
at least `MinRest` on both sides of the candidate (the code: 9 days and 48 hours, with
10 hours of rest) and that the initial roster has no clash.

`RequestProofs` adds `RInv`, under the same conditions:

- `NoRequestDangles`: `Spec => []NoDanglingRequest`. A row of `ShiftAssignment` goes only
  with its shift, and the database refuses that while a request names it as its own.
  The return shift of an exchange may go; then the request stops naming it.
- `ApprovalIsTrue`: `Spec => []ApprovedMeansMoved`. `ApprovalsOK` says which transfer an
  approval is in: the first leg still agrees with what the request says, or the first is
  in `moved` and the second agrees. It holds although others answer the same request in
  the meantime, because no step changes what a request offers (`OffersStand`): claims,
  which change the counterparty, are of drops only, and a drop asks nothing back.

`RosterProofs`: `RosterImplemented`, `Spec => ImplementsRoster`. The mapping is the one in
`Scheduling`; each action is a step of `Roster` or a stutter. `SeatInv` is what this needs
beyond `IInv`: a handler that has counted (`CountHolds`) puts in somebody who is not on
the shift, since only the holder of that person's lock could have; and only taken seats
are marked as unvetted (`EditedIsHeld`).

`InTurnProofs`, `SeatProofs` and `CancellationProofs` prove what the code keeps when calls
do not overlap. Their hypothesis is `[]InTurn`: at every moment at most one handler or
job is between its first read and its last write. There may be any number of handlers,
and staff and time may change under a call. `OneSlotTakesTurns` shows that every behaviour
with a single slot satisfies it, which is how the runs in turn are set up; the violation
`late_answer` and the hazards show that two overlapping calls do break these
properties, so the hypothesis cannot be dropped.

- `ResolvedInTurn`, `CapInTurn`, `OneOfferInTurn`, `ExpiryInTurn` (faults allowed), from
  `TInv`: what a call has read of the requests is still so when it writes (`GuardsHold`),
  and an open drop has no counterparty (`OpenIsUnclaimed`), so that a drop which expires
  had none. A step either opens nothing or opens one request that has just been counted.
- `HeadcountInTurn` (faults allowed), from `CountsHold`: between the count and the write
  of `assign` there is room, and a transfer replaces one person by another who was not on
  the shift. Here `Staff` has to be finite (`StaffAssumption`), as `Cardinality` says
  nothing of other sets.
- `FrozenInTurn` (faults allowed), from `TimesHold`: the cutoff that a call has checked has
  not passed when it writes. That needs `[][ClockWaits]_vars` as well: a call that checks
  just before the cutoff and writes just after it is possible in the code and changes a
  frozen shift. In the run time stands still.
- `CurrentInTurn` and `EditsCancelInTurn`, from `CInv`: both sides of an active request
  hold the seats it names, or gave them away in an approval, or the call that took them
  away is on its way to cancel the request (`SidesAccounted`); and the list of requests to
  cancel is complete (`CallsOK`). Without faults only (`~Faults`): a call that dies between
  the unassignment and the cancellation leaves the request, and nothing looks for it.

`ConstraintEngineProofs`, for days of any length, any shifts, rules, exceptions and limits,
and any time zone:

- `OnlyWhenIn`: `Spec => GivenOnlyWhenIn`. `InAt` says, tick by tick, when somebody is
  in; the engine works on segments. `TickInSegment` shows that each tick of a shift lies
  in the segment of its day, by the two division lemmas, and `AvailableIsIn` that a
  segment the engine finds covered and not blocked is so at each of its ticks. The
  converse does not hold: a shift that ends at midnight also needs a rule for the next
  day.
- `LimitAlwaysKept`: `Spec => []DailyLimitKept`. The shifts of a day are all in the window
  the engine fetches (`FetchedReachesBack`), so what it adds up for the candidate is the
  sum after the assignment; unassigning only takes hours away.
- `SeventhDayNeedsOverride`: `Spec => StreakNeedsOverride`. A shift of each of the six days
  before is in the window, however long, so the streak the engine finds is six at least.
- `ReportConfirmsWarnings`: `Spec => WarningsAreReported`. The engine counts a part of
  the week, the report all of it: `WeekIsReported` shows that one day to spare is enough
  for any offset to UTC of less than a day.

The last three are about `Total`, a fold over a set, and `Max`. The induction theorems of
the library cannot be instantiated here; instead `Least` (a family of subsets of a finite
set has a least member, from the well-foundedness of strict inclusion) is applied to the
family of counterexamples. With it `SumsExist` shows that the recursion behind the fold
has a solution, `Coherent` that the solutions for a set and for its subsets agree, and
`TotalRemove` and `TotalMonotone` that the order does not matter and that more shifts have
no fewer hours. `LimitsAssumption` says that the limits are whole numbers, as
`env.validation.ts` demands, and `IInv` that a calendar is finite.

`BackOfficeProofs`, for any people, any number of calls, any mixes of operations and any
initial staff, with and without faults, is built in layers. `FramesHold` says which steps
change which table, and `CallsMove` how a call can move (`Moves`: it reads, writes, ends,
takes the time, revokes, or goes through its aftermath); the invariants are then proved by cases on those
few kinds of steps rather than on forty actions:

- `OfficeTypeCorrect`. `TypeOK` alone is not inductive: a call at `write` must hold a
  value of the table it is going to write, and one at `issue` a person
  (`ReadsMakeSense`).
- `StampsAlwaysInOrder`, from `ClockInv`: a clock-out past its read has seen a clock-in,
  which nothing takes away, and the time it takes then is no earlier than that stamp, since
  no stamp is ahead of the clock (`ClockOutFits`, `ClockInFits`). Only a second clock-in can
  move the stamp later, and the person is in `reclocked` from then on (`SeatInOrder`).
- `RotationAlwaysSpends`, from `SessionInv`: a call at `issue` has not issued yet, and the
  token it exchanges is revoked, which no step undoes.
- `OnlyLateTokensSurvive`, from `LateInv`: the number of times an account was closed only
  grows, and what a session call has read is never ahead of it.
- `LogKeepsUp`, from `EntryInv`: if nobody was overtaken, at most one change of the week has
  no entry yet, and it is the last one; so its entry, when it comes, is true. A change that
  finds another one without its entry makes that call `overtaken`; one that finds none
  empties `overtaken`, which is how the log heals.
- `MailAlwaysHasNotice`, from `WroteInv` and `MailInv`: a call past its write has made it, and
  whoever is still to be told has a notification.
- `RightPeopleAlwaysTold`, from `ToldInv`: until the recipients are read, `owed` lies
  within the current audience and the audience within `concerned`; afterwards the same
  holds of the list that was read, and then of the notifications.
- `WeekCreatedOnce`, from `WeekInv`: once somebody has opened the week it exists for good.

Every safety invariant and every action property of a passing run is proved, those of
the runs in turn under the hypotheses above. Only model-checked is liveness
(`HandlersFinish`, `DropsAreResolved`, `EverythingSettles`), which is out of the prover's
reach; so are, by their nature, the violations.

## Not modelled

- **Fairness reports** (`fairness.service.ts`): three read-only sums over assignments; no
  state depends on them. Seventh-day overrides have no writer besides the seed.
- **Realtime gateway**: rooms are joined at connection and events sent to whoever
  listens; nothing is stored and nothing is acknowledged.
- **Roles and access**: guards and `LocationAccessService` only refuse calls. The models
  allow every call, so what they show holds for the allowed ones.
- **Locations and the skill catalogue**: create and update of rows that the modelled calls
  only refer to by id.
- **Audit and notifications of `ShiftsService`**: the same steps as those of `unassign`.
- **Configuration, start-up, seed**: the business rules are constants of the models.

## Plan

Done: scheduling, swaps, the engine and the roster with their runs, and the back office
with its run; a theorem for each of their safety properties, and the refinement of the
roster.

Next:

1. The converse of `OnlyWhenIn` for shifts that do not end at midnight: the engine refuses
   nobody who is in.
2. What one in-turn hypothesis each can be weakened to, `CapRespected` and
   `OneActivePerAssignment` first: for them only the calls that open requests must not overlap.
