# Verification of the corporate website and its portal

TLA+ models, TLC runs and TLAPS proofs about `src/src/java/com/zillious`: a
Java web application (Spring MVC, Hibernate, MySQL) with a public website and
an internal portal in which employees raise leave requests, have their
attendance recorded, keep a profile and are grouped in teams. The repository
has no tests; its documentation is the javadoc, the comments and the messages
of its exceptions. Below, `portal/...` and the like are relative to
`src/src/java/com/zillious/corporate_website/`.

## 1. The system

| Component | State | Operations | What is hard |
|---|---|---|---|
| Leave requests (`portal/service/impl/LeavesServiceImpl`, `LeavesDaoImpl`, `LeavesRequestController`) | table `leave_requests`, the Hibernate session of each open transaction | add, edit, status change, delete, reminder, listings | handlers overlap; whole-row writes of stale copies; exceptions caught inside transactions, edits refused half way, flushes that fail unnoticed; mails before commits |
| Day count (`portal/ui/model/LeaveRequest.populateDays`, `DateUtility`) | loop cursor, counter, three flags | one turn per day | flags carried between days, week numbers, an end date before the start date |
| Summary mail job (`ZilliousScheduler`, `SchedularServiceImpl`, `SchedularDaoImpl`) | table `schedular_email`, the running job | check, summarise, send, record | crashes between sending and recording, retries, midnight, swallowed errors |
| Attendance (`AttendanceServiceImpl`, `AttendanceDaoImpl`, `ui/beans/AttendanceBean`, `commons/db/UserDB`) | table `attendance_records` | manual entry, upload of terminal logs, summary | delete-then-insert on a snapshot, partial failure of one of two entries, a failed lookup taken for an empty one |
| Attendance summary (`AttendanceDTO`, `PerDayAttendanceDTO`) | none (computed) | fold of punches, leaves and holidays | boundaries of the period, status precedence |
| Profile pictures (`CloudManager`, `UserServiceImpl`, `ProfileController`) | objects in S3, key in the profile row | upload, replace, delete | two stores without a common transaction, a session set after a flush that failed unnoticed |
| Teams (`TeamServiceImpl`, `TeamDaoImpl`, `Team`; the page `src/src/static/portal/js/angular/teams.js` over `app.js`) | tables `team`, `user_team`; the page's own copies: list, edited row, drop-down, four lists of members | list, add, edit, delete, select, move and save members | answers that come after the list has changed or the page was left, failed calls in success callbacks, copies renewed in one place of four |
| Users, login, sessions (`UserServiceImpl`, `SessionStore`, interceptors) | user rows, session snapshot | login, role and status changes, profile | the session's copy goes stale |
| Holidays and leave policies (`LeavesPolicyServiceImpl`) | table `year_calendar`, policy documents | add, update, delete | day counts already stored do not follow |
| Mail (`utils/EmailSender`) | none | `sendEmail` | swallows every exception |
| Legacy website (`WebsiteNavigation`, `AudienceBean`, `DBUtil`) | subscriptions, contact requests | check, then insert | two transactions per request |
| Start-up, timers, pools | configuration | `initialize` | wiring only |

Requests run on the threads of the servlet container. A controller calls one
service method, which Spring wraps in a transaction (`@Transactional`); the
DAOs below share its Hibernate session, whose `closeSession()` flushes, logs a
failure and goes on. The components share the user row, the holiday calendar
(an input of the day count) and `EmailSender`. The summary job is the only
actor that is not a request. The pages of the portal are AngularJS controllers
that keep copies of what they fetched and patch them in the callbacks of their
requests, of which several may be on their way.

The properties that make a component correct are the runs of section 3 for
the modelled ones. For the others: a disabled user's next request is refused; a stored day
count is that of the calendar it was made with; a contact request is open at
most once.

## 2. Modules

| Module | Models | Correspondence |
|---|---|---|
| `LeaveData` | entity `LeaveRequest` | `Details` has the four parts an edit replaces one after the other (`Parsed` is `parseLeaveRequestDetailsFromJson` when it throws at one of them); `DaysOf` stands for `populateDays`, whose result may be negative |
| `LeaveLedger` | the promise of the handlers | one atomic step per handler on the current entry, with its answer; `Spoil` is the edit that is answered FAILURE and leaves what it had replaced by then, which is what the code does and nobody can have meant |
| `LeaveRequests` | `LeavesServiceImpl` over `leave_requests` | a handler action does the reads and decisions up to the dirty copy, `FlushInsert`/`FlushRow` the `closeSession`, `FlushFails` the one that only logs its failure, `FlushAgain` the flush of the commit after it, `Commit`/`Rollback` the end of the transaction; the mails are left out |
| `LeaveDays` | `populateDays` | `CountDay` is one turn of the loop |
| `SummaryScheduler` | `ZilliousScheduler` and below | `Check`, `Summarise`, `Send`, `Record`, `RecordFailure` in the order of the method, with its catch branch |
| `Attendance` | manual entry and upload | `Begin`, one `EnterTime`/`Refuse` per posted entry, `Commit`/`Rollback`; `Upload`. `LookedUp` is what the lookup of the punches to delete may answer, the empty list of a failed one included, and `missed` remembers those |
| `AttendanceSummary` | `AttendanceDTO` | `FlattenLeave` is one turn of `convertLeaveRequestsToMap`; `SkipWeekend`, `CountUnworked` and `CountWorked` are the kinds of day in the loop of `doPostProcessingOnData`, `AddMinutes` its last line |
| `ProfilePicture` | `CloudManager`, the picture handlers and `updateProfile` | `Begin` reads the row; `Put`/`Remove` are the calls to S3, `Save` the flush and the session, `Commit` what follows the handler; each has a failing twin. `FlushFails` is the flush whose failure `closeSession` only logs: the session is set all the same, without the lock of the row, and the commit flushes again |
| `TeamsPage` | the page of teams and the handlers it calls | one action per click, per handler of `TeamServiceImpl` (`GetTeams` to `UpdateTeamMembers`, one transaction each) and per callback (`On...`); `flight` holds the requests between the three |
| `MC...` | small instances | definitions for the configurations |
| `...Proofs` | theorems | section 4 |

Errors that the code swallows are steps of the models, since what follows them
goes on as if nothing had happened: the exception of a half-parsed edit, which
is caught inside the transaction that commits (`LeavesServiceImpl.java:267`), a
failed flush (`closeSession` of the DAOs), a failed lookup that answers null or
the empty list, a refused mail.

`LeaveDays` is composed with `LeaveRequests` through `DaysOf`: the handlers
treat the result of the count as a function of the details, and the proofs
about the handlers hold for every such function, so for the one `LeaveDays`
computes.

What surrounds the code is assumed, and marked external in the map:

- InnoDB REPEATABLE READ: the first SELECT of a transaction fixes what it
  reads; a written row is locked until its transaction ends; AUTO_INCREMENT
  never hands out an id twice.
- Hibernate writes the whole row of a dirty entity (`LeaveRequest` has neither
  `@Version` nor `@DynamicUpdate`); an UPDATE or DELETE that meets no row is a
  `StaleStateException`, which `closeSession()` logs, and the commit, which
  flushes again, fails.
- `java.util.Calendar` with weeks that begin on Sunday and a minimal first
  week of one day (the US default).
- S3 is a set of keys; a call that throws may or may not have had its effect;
  deleting an object that is gone succeeds.
- The overlay of a page takes every click, so that while it is up the page can
  only be loaded again, which is modelled once nothing is awaited. Answers come
  in any order; a call may fail or its answer be lost, and `httpHitFactory`
  turns both into an answer the success callbacks get.
- `<task:annotation-driven/>` gives the scheduler one thread, so jobs do not
  overlap; the cron expression of `src/res/env/ob.env` fires many times a day.

## 3. Runs

| Run | Instance | What it shows |
|---|---|---|
| `LeaveConcurrent` | 2 threads, 1 user, 1 request, 2 details | whatever the overlap, decided requests name their decider (`DecidedHasDecider`), deleted requests stay deleted and owners stay (`IdentityStable`), days that do not belong to their dates come from refused edits alone (`SpoiledByRefusal`), and every change of the table is one step of `LeaveLedger` unless it overwrites another change (`ImplementsLedger`) |
| `LeaveLostDecision` (violation) | 2 threads | an edit undoes a decision made meanwhile |
| `LeaveDays` | starts in 2 weeks, ends within 40 days, 3 months, 5 holidays | the loop counts working days (`CountsWorkdays`), and the days of the weekends inside where the policy says so, less the holidays (`CountsBridgedWeekends`); within a month it misses none of these weekends (`WithinMonthBridged`); it ends unless the dates are reversed. Of leaves that start on a working Monday the three counts say nothing, the two with bridging nothing of leaves that carry a weekend holiday over to a later weekend |
| `LeaveMonday` (violation) | the same | a working Monday with which a leave starts is counted twice |
| `SummaryScheduler` | 2 users, 3 days, 2 faults a day, dates that return after 2 days | duplicates are paid for by faults; a lasting day gets recorded as mailed |
| `SummaryFailure` (violation) | 1 day, no fault | a refused mail is recorded as sent |
| `Attendance` | 2 threads, 1 user, in times 0 and 2, out times 1 and 3, terminals at 1 | corrections take effect, but for entries whose lookup failed; no day is erased |
| `AttendanceSummary` | Thursday to Sunday, 6 kinds of day, 4 leaves, 2 holidays | summary and calendar agree; approvals and holidays excuse, in any order of the requests; minutes decide a worked day and none is lost |
| `ProfilePicture` | 3 threads, 3 keys, 4 faults or overlaps | a first picture that commits is there to be shown; own changes reach the session until a flush has failed unnoticed; every orphan or missing object has a fault or overlap of its own |
| `AttendanceOthers` (violation) | 1 thread, 2 users | a correction deletes the punches of others |
| `TeamsPage` | 1 employee, 2 names, up to 3 teams, 2 requests at once, 5 requests or faults | a delete takes out the row of its team unless two deletes met (`IndexStillTheirs`); while requests do not cross and nothing fails, the list is the table (`ListIsTrue`), its numbers of members are true but for three copies the page never renews (`MembersAreTrue`), and nobody vanishes from the lists of members (`NobodyHidden`); a save clears no pick it did not send (`ClearedWereSent`); a page stays covered only after a fault (`BlockedOnlyByFault`) |
| `TeamsPageSorted` (violation) | the same, 3 requests, the list sorted | the button of one row deletes the team of another |

Why the bounds are enough. The leave handlers never relate two requests or two
users, so a lost update, a resurrected row and a mixed one need one request,
two transactions and two details to tell apart, here two start dates, one of
which a half-parsed edit can leave with the days of the other; a third thread
adds only repetitions. Threads are symmetric. `MaxId` bounds the ids: a request that would need
another is not inserted. The first two weeks of starts meet every weekday with
the cursor in the first and in a later week, and ends up to five weeks on,
across the last days of a month and the next one, which begins in the middle of
a week, give equal and different week-of-month numbers, one to five weekends
inside, and ends before starts; the holidays fall on two Mondays, a Friday, a
Saturday and a Sunday. Three days with `YearDays = 2` let a date come again,
and two faults a day let the catch branch fail too. With in times 0 and 2,
out times 1 and 3 and punches of earlier entries at all of them, the window of
an in time and that of an out time can each hold punches in an ordered call
(both of one call at once need a fifth time, and only the theorem covers it). The four days of the
summary have both kinds of weekend day and two working days, so that requests
and holidays overlap in part, in full and not at all, and one of each starts
before the period; the minutes lie on either side of both thresholds. A picture
whose row is brought back by a stale edit needs three requests; three threads
and four overlaps let all of them be open at once and one of them fail.
`MaxDamage` bounds faults and overlaps, `KeysLeft` keeps an upload from waiting
for a key the small instance no longer has.

Two requests at once are what an index or an uncovered page needs to go wrong,
a third team the one whose row moves, and one employee is enough for every list
a member can be in or vanish from; `MaxCopies` bounds the copies of one employee in a
list of picks. `Budget` bounds requests, lost calls and the changes of other
administrators together: five are a load, two requests that cross, and two
faults or requests after them. Employees, names and slots are symmetric. The
instance starts with two teams of one name, so that their rows differ by id
alone.

Fairness. `WF_vars(CountDay)`: the loop runs on. `WF_vars(JobStep)`: the cron
fires again and again and a started job goes on unless the server dies; no
fairness is asked of faults, midnight, the mail server or due mails, and
`DueIsMailed` claims something only of behaviours in which days end (`MaxDay`)
and somebody stays due. The other specifications have no fairness: a request
may stop anywhere.

A deadlock check is on in every run but `LeaveDays`, `LeaveMonday` and
`AttendanceSummary`, whose computations end, and `TeamsPage`, whose
administrator may leave the page for good once the budget is spent (a page that
stays covered is another thing, which `BlockedOnlyByFault` is about).

## 4. Proofs

| Theorem | Module | Establishes |
|---|---|---|
| `TypeCorrect`, `DecidersKnown`, `IdentityKept`, `SpoiledOnlyByRefusals` | `LeaveRequestsProofs` | the properties of `LeaveConcurrent` but the last, for any threads, users, details and requests |
| `HandlersImplementLedger`, `WithoutOverwrites`, `SerialImplementsLedger` | `LeaveLedgerProofs` | on any number of threads a change of the table is a step of `LeaveLedger` or overwrites another change (`ImplementsLedger`); behaviours without such overwriting are behaviours of `LeaveLedger`, and with one thread all are |
| `DaysTypeCorrect`, `WorkdaysCounted`, `WeekendsCounted`, `MonthBridged`, `EndReached` | `LeaveDaysProofs` | types; in leaves that do not start on a working Monday, the loop counts working days without bridging, and with it also the days of the weekends between a Friday and a Monday of the leave that are no holidays, unless a weekend holiday is carried over; within a month no such weekend is missed; the cursor meets the end date only if it is not before the start: for any calendar, any holidays and leaves of any length |
| `SummaryTypeCorrect`, `DuplicatesNeedFaults` | `SummaryProofs` | types, and at most one summary a day more than faults |
| `AttendanceTypeCorrect`, `CorrectionsHold`, `DaysAreKept` | `AttendanceProofs` | the three properties of `Attendance`, for any users, times and threads |
| `SummaryTypes`, `PagesAgree`, `LeavesExcuse`, `MinutesDecide`, `HoursAddUp` | `AttendanceSummaryProofs` | the five properties of `AttendanceSummary`, for any period, punches, leaves and holidays |
| `PictureTypes`, `FirstPictureShows`, `OwnChangesShow`, `DamagePaid` | `ProfilePictureProofs` | all four properties of `ProfilePicture`, for any finite set of threads and any keys |
| `TeamTypes`, `DeletesTakeTheirRow`, `ClearedPicksWereSent`, `ListShowsTheTable`, `OnlyFaultsBlock`, `NobodyIsHidden`, `MembersShown` | `TeamsPageProofs` | the seven properties of `TeamsPage` that hold, for any employees, names, teams, requests at once and budget |

They rest on the named assumptions of the modules (`LeaveAssumption`,
`NoRowAssumption`, `DaysAssumption`, `SchedulerAssumption`,
`NoEntryAssumption`, `AttendanceAssumption`, `SummaryAssumption`,
`PictureAssumption`, `TeamsAssumption`), which TLC evaluates in the runs.

Inductive invariants.

- `LeaveRequests`: the properties of the stored rows are kept only because the
  copies in open transactions have them too (`CopiesSound`), and a deleted id
  stays gone only because at most one transaction holds a written row and an
  open INSERT holds an id nobody else knows (`LocksHeld`). `CopiesSound` also
  says that a copy is the row as it was read, changed by its handler alone: so a
  copy with wrong days is one of a refused edit, or its handler had read wrong
  days.
- The refinement needs no more than that: a commit over the row that was read is
  a step of the ledger on the current row, one over another row is `Overwrites`.
  That this exception cannot go is what `LeaveLostDecision` shows. With one
  thread, the row that was read is the current one (`BaseIsCurrent`).
- `LeaveDays`: the flags are a function of the cursor and the start date, and
  the count is that of the days before the cursor. `isFriday` tells
  whether a Friday of the leave awaits its Monday (`FridaySound`), and
  `leavesOnSatOrSun` is the number of holidays so far that fall on a weekend,
  or on a Monday right after a weekend with which the leave starts
  (`HolidaysCounted`). The loop never resets it, so each of them is taken off at
  every Monday that follows: the days taken off are the pairs of such a holiday
  and a later Monday (`PairsIn`), which is why a leave over several weekends
  with holidays on them can cost less than nothing. As long as no holiday is
  carried over to a later weekend these pairs are the holidays inside
  (`PairsArePaid`), and what is left is the cost the policy asks for. The
  invariant covers every leave, with the second count of a Monday at the start
  (`FirstMonday`); the properties leave these out and `LeaveMonday` shows them.
  `MonthBridged` needs that two days of one month with the same week number are
  in the same week (`SameWeekOfMonth`), and that a leave within a week has no weekend inside.
- `SummaryScheduler`: a user whose mail may still go out today has got every
  earlier one because of a fault (`Paid`): the faults run one ahead.
- `Attendance`: the windows of the entries done so far, but for those whose
  lookup failed, are empty in what is left of the snapshot, what is added is what was entered, and something is deleted
  only together with something added (`Sound`, `Entered`).
- `AttendanceSummary`: what the flattened requests say of a day does not depend
  on their order (`FlattenedRight`), and the loop leaves later days alone
  (`Untouched`). `HoursAddUp` carries hours and minutes as one sum
  (`TimesAddUp`). The sum it is compared with is a recursive function, of which
  TLAPS knows only that it is some function that satisfies its equation if
  there is one: that there is one is `SumsExist`, by an induction over the days
  (`SetInduction`, from the well-foundedness of `<` on the naturals, stated of
  sets because the provers cannot instantiate an induction rule on predicates).
- `ProfilePicture`: the key of a first picture is known to its own request
  only until it commits (`FirstsPrivate`), because keys are fresh and copies
  come from the committed row; the locked row has one writer, whose copy the
  session has unless a flush failed unnoticed (`RowLocked`). What is broken is
  paid for only if open requests are counted in (`Paid`): with any request open, the excuses exceed what is broken
  by the number of open requests less one and by what any one of them will
  break if it goes on (`Harm`): an edit that brings back an old key, a first
  picture in the place of another one, a deletion or a replacement of a picture
  the row no longer names.
- `TeamsPage`: on any page, a load is alone and the overlay has a reason
  (`PageInv`); on a page where nothing crossed, the list is the table but for
  the one request on its way, and what that request has changed is what its
  callback will do to the list (`Pending` in `CleanInv`). An index stays true
  because only the answer to a delete takes out a row, and two deletes on their
  way have met. The member tab shows everybody unless a selection or a save that
  went through has yet to be answered (`TabInv`), since a pick only moves a
  copy from one list of a pair to the other. A number or a drop-down that is
  wrong is one that is never renewed, or the answer that renews it is on its way
  (`CountInv`); a row saved from an edit is as true as the one it replaces unless
  their numbers differ.

Only model-checked: that a leave with ordered dates does end (the other half of
`EndsIffOrdered`, whose safety part is `EndReached`) and `DueIsMailed`. Both
are liveness properties under weak fairness, whose proof needs `ENABLED`.

## 5. Not modelled, and the plan

Left out for good: wording and layout of mails and pages, address parsing,
string utilities, dependency wiring, connection pools, the vendored GeoIP
code, static assets, mockups. Most of the repository by size is vendored
JavaScript (Bootstrap, FullCalendar, LivIcons, an admin theme among the mockups)
and the copies of it that a build left under `src/webapp/ROOT`: no program of this
project, so nothing of it is modelled. Of the teams, their supervisors and mail
groups are data of the form that no handler decides by, and the read-only page
of other users sends nothing but `fetch`.

The order of what is left:

1. `LeavesPage`: the page of leave requests (`applyleaves.js`) keeps its copies
   the way that of teams does, over the handlers of `LeaveRequests`. Then the
   pages of employees, policies and attendance.
2. `Holidays` and `Sessions`: the calendar behind day counts; the session's
   snapshot of the user, which a change of role does not reach.
3. `ContactRequests`: check, then insert, of the legacy site; `deleteUser`, the
   mails of teams and their supervisors.
4. Proofs: the type and safety invariants of the modules above.
